---- MODULE Spec2Model ----
(***************************************************************************)
(* Timeline reconstruction engine of aw-daily-reporter:                    *)
(*   TimelineMerger.merge_timeline   (timeline/merger.py)                  *)
(*   AFKProcessor.process            (plugins/processor_afk.py)            *)
(*                                                                         *)
(* Time is counted in ticks of 0.025 s and every input instant lies on the *)
(* grid of even ticks (0.05 s), so that the 0.1 s sliver threshold of both *)
(* stages is MinDuration = 4 ticks, a 2-tick piece is a sliver, and every  *)
(* midpoint start + (end - start) / 2 is an exact tick.                    *)
(***************************************************************************)
EXTENDS Integers, Sequences, FiniteSets, TLC

VARIABLES
    pc,             \* position of the run: "start", "merged", "filtered", "refiltered"
    events_map,     \* merge_timeline argument: source name -> list of raw events
    end_time,       \* merge_timeline argument: session end, or NoTime
    now,            \* the clock _flood_fill_gap reads
    merge_status,   \* "none" before the call, then "ok" or "error" (exception raised)
    timeline,       \* the list merge_timeline returned / the list handed to AFKProcessor
    active_projects,\* the project set merge_timeline returned
    debug_snapshots,\* TimelineMerger.debug_snapshots
    df_vscode_filled, \* merge_timeline: df_vscode after _flood_fill_gap
    df_active,      \* AFKProcessor.process: content rows after flattening
    active_ranges,  \* AFKProcessor.process: the list of (start, end) ranges
    result,         \* AFKProcessor.process: the rows returned
    result2,        \* AFKProcessor.process applied to its own output
    rerun,          \* a second run of the engine on the same inputs: clock and outputs
    calls,          \* merge_timeline calls in progress side by side, one record each
    merger_snapshots, \* debug_snapshots of each TimelineMerger instance the calls use
    stats_config,   \* analyze_working_hours argument: config["settings"]["break_categories"]
    work_stats,     \* the WorkStats analyze_working_hours returned
    plugins_json,   \* plugins.json: whether it exists, and its entries
    plugin_config,  \* PluginManager.plugin_config
    ordered_plugins,\* the list the last call of _get_ordered_plugins returned
    last_call,      \* the caller of that call, and the configuration the manager loaded
    compressed,     \* the rows CompressionProcessor.process returned
    pipeline,       \* run_pipeline_with_snapshots: its locals, and what each plugin was handed
    afk_plugin_config \* config["plugins"][AFKProcessor.plugin_id]

vars == <<pc, events_map, end_time, now, merge_status, timeline, active_projects,
          debug_snapshots, df_vscode_filled, df_active, active_ranges, result, result2,
          rerun, calls, merger_snapshots, stats_config, work_stats, plugins_json,
          plugin_config, ordered_plugins, last_call, compressed, pipeline,
          afk_plugin_config>>

\* the state of the engine, of the statistics and of the plugin manager
engine == <<events_map, end_time, now, merge_status, timeline, active_projects,
            debug_snapshots, df_vscode_filled, df_active, active_ranges, result, result2,
            rerun, calls, merger_snapshots>>
stats == <<stats_config, work_stats>>
manager == <<plugins_json, plugin_config, ordered_plugins, last_call>>

\* the state of the stages that run after the merger and the AFK filter
downstream == <<stats, manager, compressed, pipeline, afk_plugin_config>>

-----------------------------------------------------------------------------
(* Bounds of the model *)

MaxStart == 3       \* latest start of an input record, in grid steps
MaxDur == 5         \* longest duration of an input record, in grid steps
MaxRows == 3        \* most rows of a timeline handed directly to AFKProcessor
MaxEvents == 2      \* most raw events handed to merge_timeline, all sources together
MaxOverlays == 2    \* most editor and browser records under one window record
MaxOverlayDur == 2  \* longest duration of such a record, in grid steps
MaxAppRows == 2     \* most rows of a timeline with system apps in either spelling
MaxCallStart == 1   \* latest start of a record handed to one of two calls side by side
MaxStatsRows == 3   \* most items handed to analyze_working_hours
MaxStatsStart == 2  \* latest start of such an item, in grid steps
MaxStatsDur == 3    \* longest duration of such an item, in grid steps
MaxCompressRows == 3 \* most rows handed to CompressionProcessor
MaxConfigEntries == 2 \* most entries of the plugins.json a PluginManager loads
MaxPipelineEntries == 1 \* most entries of plugins.json when the pipeline runs
MaxPipelineRows == 2 \* most rows of the timeline handed to the pipeline

(* Program constants *)

MinDuration == 4    \* 0.1 s, in ticks of 0.025 s
NoTime == -1        \* end_time = None

SYSTEM_APPS == {"loginwindow", "lockscreen", "screensaverengine"}
UNKNOWN_APP == "Unknown"

-----------------------------------------------------------------------------
(* Generic helpers *)

Min(a, b) == IF a <= b THEN a ELSE b
Max(a, b) == IF a >= b THEN a ELSE b

SetMin(S) == CHOOSE x \in S : \A y \in S : x <= y
SetMax(S) == CHOOSE x \in S : \A y \in S : x >= y

RECURSIVE SortedPoints(_)
\* sorted(split_points): the ascending sequence of a set of instants
SortedPoints(S) ==
    IF S = {} THEN <<>>
    ELSE LET m == SetMin(S) IN <<m>> \o SortedPoints(S \ {m})

RECURSIVE SumSeq(_)
SumSeq(s) == IF s = <<>> THEN 0 ELSE Head(s) + SumSeq(Tail(s))

\* str.lower() on the app names of the model
Lower(a) ==
    CASE a = "LoginWindow" -> "loginwindow"
      [] a = "Code"        -> "code"
      [] a = "Chrome"      -> "chrome"
      [] a = "Finder"      -> "finder"
      [] a = "Unknown"     -> "unknown"
      [] a = "Git"         -> "git"
      [] a = "Zoom"        -> "zoom"
      [] OTHER             -> a

RECURSIVE InsertByTimestamp(_, _)
\* place r behind every row whose timestamp is <= r.timestamp
InsertByTimestamp(r, s) ==
    IF s = <<>> THEN <<r>>
    ELSE IF Head(s).timestamp <= r.timestamp
         THEN <<Head(s)>> \o InsertByTimestamp(r, Tail(s))
         ELSE <<r>> \o s

RECURSIVE SortByTimestamp(_)
\* sort_values("timestamp") / list.sort(key=timestamp): ascending; rows of equal
\* timestamp keep their input order (list.sort is stable, and so is the
\* insertion sort numpy runs on frames of this size)
SortByTimestamp(s) ==
    IF s = <<>> THEN <<>>
    ELSE InsertByTimestamp(s[Len(s)], SortByTimestamp(SubSeq(s, 1, Len(s) - 1)))

-----------------------------------------------------------------------------
(* AFKProcessor.process *)

\* df["end"] = df["timestamp"] + to_timedelta(df["duration"])
WithEnd(df) == [i \in 1..Len(df) |-> [df[i] EXCEPT !.end = df[i].timestamp + df[i].duration]]

IsFromAfkSource(r) == r.source = "AFK"
IsActiveFromAfkSource(r) == r.source = "AFK" /\ r.status = "not-afk"
IsContent(r) == ~IsFromAfkSource(r)
HasPositiveDuration(r) == r.duration > 0

\* the flatten loop without the recomputation of duration
FlattenTimestampsStaleDuration(s) ==
    [i \in 1..Len(s) |->
        IF i > 1 /\ s[i].timestamp < s[i - 1].end
        THEN [s[i] EXCEPT !.timestamp = s[i - 1].end]
        ELSE s[i]]

\* the flatten loop: a start before the previous row's end moves to that end
FlattenTimestamps(s) ==
    [i \in 1..Len(s) |->
        IF i > 1 /\ s[i].timestamp < s[i - 1].end
        THEN [s[i] EXCEPT !.timestamp = s[i - 1].end,
                          !.duration = s[i].end - s[i - 1].end]
        ELSE [s[i] EXCEPT !.duration = s[i].end - s[i].timestamp]]

\* df_active after sorting, flattening and keeping duration > 0
Flatten(df) ==
    SelectSeq(FlattenTimestamps(SortByTimestamp(SelectSeq(df, IsContent))),
              HasPositiveDuration)

RECURSIVE SweepRangesStrict(_, _)
\* the sweep merging only on start < end of the last range: touching rows stay apart
SweepRangesStrict(rows, acc) ==
    IF rows = <<>> THEN acc
    ELSE LET r == Head(rows)
             n == Len(acc)
         IN IF n > 0 /\ r.timestamp < acc[n][2]
            THEN SweepRangesStrict(Tail(rows),
                     [acc EXCEPT ![n] = <<acc[n][1], Max(acc[n][2], r.end)>>])
            ELSE SweepRangesStrict(Tail(rows), Append(acc, <<r.timestamp, r.end>>))

RECURSIVE SweepRanges(_, _)
\* the sweep over the sorted not-afk rows; acc is active_ranges so far
SweepRanges(rows, acc) ==
    IF rows = <<>> THEN acc
    ELSE LET r == Head(rows)
             n == Len(acc)
         IN IF n > 0 /\ r.timestamp <= acc[n][2]
            THEN SweepRanges(Tail(rows),
                     [acc EXCEPT ![n] = <<acc[n][1], Max(acc[n][2], r.end)>>])
            ELSE SweepRanges(Tail(rows), Append(acc, <<r.timestamp, r.end>>))

\* active_ranges whose fallback spans the first content row only
ActiveRangesFirstRow(df, flat) ==
    LET not_afk == SelectSeq(df, IsActiveFromAfkSource)
    IN IF not_afk # <<>>
       THEN SweepRanges(SortByTimestamp(not_afk), <<>>)
       ELSE IF flat # <<>>
            THEN << <<flat[1].timestamp, flat[1].end>> >>
            ELSE <<>>

\* active_ranges: merged not-afk rows, or the full span of the content rows
ActiveRanges(df, flat) ==
    LET not_afk == SelectSeq(df, IsActiveFromAfkSource)
    IN IF not_afk # <<>>
       THEN SweepRanges(SortByTimestamp(not_afk), <<>>)
       ELSE IF flat # <<>>
            THEN << <<SetMin({flat[i].timestamp : i \in 1..Len(flat)}),
                      SetMax({flat[i].end : i \in 1..Len(flat)})>> >>
            ELSE <<>>

\* split_points: starts and ends of the flattened rows and of the ranges
SplitPoints(flat, ranges) ==
    {flat[i].timestamp : i \in 1..Len(flat)} \cup {flat[i].end : i \in 1..Len(flat)}
    \cup {ranges[i][1] : i \in 1..Len(ranges)} \cup {ranges[i][2] : i \in 1..Len(ranges)}

\* is_in_active without the comparison against the end of the range
IsInActiveNoEnd(ranges, t) ==
    LET idx == Cardinality({i \in 1..Len(ranges) : ranges[i][1] <= t})
    IN idx >= 1 /\ ranges[idx][1] <= t

\* is_in_active: bisect_right over the range starts, then containment
IsInActive(ranges, t) ==
    LET idx == Cardinality({i \in 1..Len(ranges) : ranges[i][1] <= t})
    IN idx >= 1 /\ ranges[idx][1] <= t /\ t < ranges[idx][2]

Midpoint(a, b) == a + ((b - a) \div 2)

RECURSIVE CopiesFor(_, _, _, _)
\* the inner loop: one copy per flattened row whose span holds the midpoint
CopiesFor(flat, seg_start, seg_end, j) ==
    IF j > Len(flat) THEN <<>>
    ELSE LET mid == Midpoint(seg_start, seg_end)
             rest == CopiesFor(flat, seg_start, seg_end, j + 1)
         IN IF flat[j].timestamp <= mid /\ mid < flat[j].end
            THEN <<[flat[j] EXCEPT !.timestamp = seg_start,
                                   !.duration = seg_end - seg_start,
                                   !.end = NoTime]>> \o rest
            ELSE rest

RECURSIVE FinalRowsDropAtThreshold(_, _, _, _)
\* the loop skipping pieces of exactly 0.1 s too (dur <= 0.1)
FinalRowsDropAtThreshold(flat, ranges, points, i) ==
    IF i >= Len(points) THEN <<>>
    ELSE LET seg_start == points[i]
             seg_end == points[i + 1]
             rest == FinalRowsDropAtThreshold(flat, ranges, points, i + 1)
         IN IF seg_end - seg_start <= MinDuration THEN rest
            ELSE IF ~IsInActive(ranges, Midpoint(seg_start, seg_end)) THEN rest
            ELSE CopiesFor(flat, seg_start, seg_end, 1) \o rest

RECURSIVE FinalRows(_, _, _, _)
\* the loop over consecutive split points
FinalRows(flat, ranges, points, i) ==
    IF i >= Len(points) THEN <<>>
    ELSE LET seg_start == points[i]
             seg_end == points[i + 1]
             rest == FinalRows(flat, ranges, points, i + 1)
         IN IF seg_end - seg_start < MinDuration THEN rest
            ELSE IF ~IsInActive(ranges, Midpoint(seg_start, seg_end)) THEN rest
            ELSE CopiesFor(flat, seg_start, seg_end, 1) \o rest

\* plugin_config.get("afk_system_apps", [])
ConfiguredApps(afk_config) ==
    IF "afk_system_apps" \in afk_config.keys THEN afk_config.afk_system_apps ELSE <<>>

\* the configured names added to the built-in ones
SystemAppsExtended(afk_config) ==
    SYSTEM_APPS \cup {Lower(ConfiguredApps(afk_config)[i]) :
                         i \in 1..Len(ConfiguredApps(afk_config))}

\* system_apps: the built-in set, or the configured names in lower case when
\* the list is not empty
SystemApps(afk_config) ==
    LET configured_apps == ConfiguredApps(afk_config)
    IN IF configured_apps # <<>>
       THEN {Lower(configured_apps[i]) : i \in 1..Len(configured_apps)}
       ELSE SYSTEM_APPS

\* the system-app filter comparing the app name as it is spelt
DropSystemAppsAsSpelt(rows, system_apps) ==
    LET Keep(r) == r.app \notin system_apps
    IN SelectSeq(rows, Keep)

\* the system-app filter on the result rows
DropSystemApps(rows, system_apps) ==
    LET Keep(r) == Lower(r.app) \notin system_apps
    IN SelectSeq(rows, Keep)

\* AFKProcessor.process as a function of the timeline and the suppression set
AFKProcess(df0, system_apps) ==
    IF df0 = <<>> THEN <<>>
    ELSE LET df == WithEnd(df0)
             flat == Flatten(df)
             ranges == ActiveRanges(df, flat)
             points == SortedPoints(SplitPoints(flat, ranges))
         IN DropSystemApps(FinalRows(flat, ranges, points, 1), system_apps)

-----------------------------------------------------------------------------
(* TimelineMerger *)

None == "None"      \* an attribute the event does not carry

IsInverted(r) == r.end < r.timestamp

\* events_to_df: one row per event with end = timestamp + duration, sorted by timestamp
events_to_df(events) ==
    SortByTimestamp([i \in 1..Len(events) |->
        [events[i] EXCEPT !.end = events[i].timestamp + events[i].duration]])

\* the instant taken from the clock whatever end_time is
ActualEndFromClock(endt, clock) == clock

\* the instant the last editor row is extended to: end_time clamped to now
ActualEnd(endt, clock) == IF endt > clock THEN clock ELSE endt

\* _flood_fill_gap extending the last row to end_time itself, also when it is ahead of now
flood_fill_gapUnclamped(df0, endt, clock) ==
    LET df == SortByTimestamp(df0)
        n == Len(df)
        NewEnd(i) == IF i < n THEN df[i + 1].timestamp
                     ELSE IF endt # NoTime THEN endt
                     ELSE df[i].end
    IN [i \in 1..n |-> [df[i] EXCEPT !.end = NewEnd(i),
                                     !.duration = NewEnd(i) - df[i].timestamp]]

\* _flood_fill_gap: every end becomes the next start; the last one the clamped end_time
flood_fill_gap(df0, endt, clock) ==
    LET df == SortByTimestamp(df0)
        n == Len(df)
        NewEnd(i) == IF i < n THEN df[i + 1].timestamp
                     ELSE IF endt # NoTime THEN ActualEnd(endt, clock)
                     ELSE df[i].end
    IN [i \in 1..n |-> [df[i] EXCEPT !.end = NewEnd(i),
                                     !.duration = NewEnd(i) - df[i].timestamp]]

\* IntervalIndex.from_arrays(timestamp, end, closed="both") succeeds iff no left > right
HasIntervalIndex(df) == \A i \in 1..Len(df) : ~IsInverted(df[i])

\* rows of an overlay frame that overlap [start, end]: the IntervalIndex lookup
\* (closed on both sides) or, without an index, the strict comparison
Overlapping(df, start, end) ==
    IF HasIntervalIndex(df)
    THEN SelectSeq(df, LAMBDA r : r.timestamp <= end /\ r.end >= start)
    ELSE SelectSeq(df, LAMBDA r : r.timestamp < end /\ r.end > start)

NaN == "nan"        \* the value pandas gives a row for a column only other rows carry

FallbackMargin == 2400      \* timedelta(minutes=2), in ticks

\* any(x in app_name for x in ["code", "cursor", "antigravity", "windsurf"])
IsEditorApp(app_name) == app_name \in {"code", "cursor", "antigravity", "windsurf"}
\* any(b in app_name for b in ["chrome", "safari", "arc", "firefox", "edge", "browser"])
IsBrowserApp(app_name) ==
    app_name \in {"chrome", "safari", "arc", "firefox", "edge", "browser"}

\* len(title) of the titles of the model
TitleLen(t) ==
    CASE t = "" -> 0
      [] t = "Do" -> 2
      [] t = "nan" -> 3
      [] t = "Docs" -> 4
      [] t = "Docs - Chrome" -> 13
      [] OTHER -> 7

\* web_t in str(window_title): substring test on the titles of the model
IsSubstring(web_t, window_title) ==
    \/ web_t = window_title
    \/ web_t = ""
    \/ web_t \in {"Do", "Docs"} /\ window_title = "Docs - Chrome"
    \/ web_t = "Do" /\ window_title = "Docs"

\* TimelineGenerator.clean_url: empty for no url, the query string cut off
clean_url(url) ==
    CASE url = "" -> ""
      [] url = "http://a?q" -> "http://a"
      [] OTHER -> url

\* row.get(attr) on a row of df: None when no row of the frame carries the
\* attribute (no such column), NaN when only other rows carry it
RowGet(df, r, attr) ==
    IF r[attr] # None THEN r[attr]
    ELSE IF \E i \in 1..Len(df) : df[i][attr] # None THEN NaN
    ELSE None

Overlay(type, df, r) ==
    [type |-> type, start |-> r.timestamp, end |-> r.end,
     file |-> RowGet(df, r, "file"), language |-> RowGet(df, r, "language"),
     project |-> RowGet(df, r, "project"), url |-> RowGet(df, r, "url"),
     title |-> RowGet(df, r, "title")]

\* the rows of df_web the title heuristic may pick from: within two minutes
WebCandidates(df_web, start, end) ==
    IF HasIntervalIndex(df_web)
    THEN SelectSeq(df_web, LAMBDA r : r.timestamp <= end + FallbackMargin
                                      /\ r.end >= start - FallbackMargin)
    ELSE SelectSeq(df_web, LAMBDA r : r.timestamp >= start - FallbackMargin
                                      /\ r.timestamp <= end + FallbackMargin)

\* the first candidate whose title (longer than 2) occurs in the window title
TitleMatches(df_web, cands, window_title) ==
    SelectSeq(cands, LAMBDA r :
        LET v == RowGet(df_web, r, "title")
            web_t == IF v = None THEN "" ELSE v
        IN web_t # "" /\ TitleLen(web_t) > 2 /\ IsSubstring(web_t, window_title))

FirstOf(s) == IF s = <<>> THEN <<>> ELSE <<Head(s)>>

\* matched_web: the overlapping rows, else the row the title heuristic finds
MatchedWeb(start, end, window_title, df_web) ==
    LET matched == Overlapping(df_web, start, end)
    IN IF matched = <<>> /\ window_title # "" /\ df_web # <<>>
       THEN FirstOf(TitleMatches(df_web, WebCandidates(df_web, start, end), window_title))
       ELSE matched

\* _find_overlays without its browser part
find_overlaysEditorOnly(start, end, app_name, window_title, df_vscode, df_web) ==
    LET vs == IF IsEditorApp(app_name) THEN Overlapping(df_vscode, start, end) ELSE <<>>
    IN [i \in 1..Len(vs) |-> Overlay("vscode", df_vscode, vs[i])]

\* _find_overlays: editor rows for an editor app, then browser rows for a browser app
find_overlays(start, end, app_name, window_title, df_vscode, df_web) ==
    LET vs == IF IsEditorApp(app_name) THEN Overlapping(df_vscode, start, end) ELSE <<>>
        ws == IF IsBrowserApp(app_name)
              THEN MatchedWeb(start, end, window_title, df_web) ELSE <<>>
    IN [i \in 1..Len(vs) |-> Overlay("vscode", df_vscode, vs[i])]
       \o [i \in 1..Len(ws) |-> Overlay("web", df_web, ws[i])]

\* the split points with the overlay bounds taken as they are, not clipped
SegmentPointsUnclipped(start, end, overlays) ==
    {start, end}
    \cup UNION {IF Max(start, overlays[k].start) < Min(end, overlays[k].end)
                THEN {overlays[k].start, overlays[k].end} ELSE {} : k \in 1..Len(overlays)}

\* split_points of _create_segments: start, end and the clipped overlay bounds
SegmentPoints(start, end, overlays) ==
    {start, end}
    \cup UNION {LET s == Max(start, overlays[k].start)
                    e == Min(end, overlays[k].end)
                IN IF s < e THEN {s, e} ELSE {} : k \in 1..Len(overlays)}

IsMissing(v) == v = None \/ v = NaN          \* not pd.notna(v)
IsTruthy(v) == v # None /\ v # ""            \* bool(v); NaN is truthy

\* one pass of the overlay loop body over item
FoldOverlay(item, ov) ==
    IF ov.type = "vscode"
    THEN LET withLine == [item EXCEPT !.context = Append(@, <<"[VSCode]", ov.file, ov.language>>)]
             withFile == IF IsTruthy(ov.file) THEN [withLine EXCEPT !.file = ov.file]
                         ELSE withLine
             withLang == IF ~IsMissing(ov.language)
                         THEN [withFile EXCEPT !.language = ov.language] ELSE withFile
         IN IF ~IsMissing(ov.project) /\ IsTruthy(ov.project)
            THEN [withLang EXCEPT !.project = ov.project,
                                  !.context = Append(@, <<"Project:", ov.project>>)]
            ELSE withLang
    ELSE IF IsTruthy(ov.url)
         THEN [item EXCEPT !.url = clean_url(ov.url),
                           !.context = Append(@, <<"URL:", clean_url(ov.url), ov.title>>)]
         ELSE item

RECURSIVE FoldOverlays(_, _)
FoldOverlays(item, ovs) ==
    IF ovs = <<>> THEN item ELSE FoldOverlays(FoldOverlay(item, Head(ovs)), Tail(ovs))

\* overlays taken as active when their interval holds the start of the sub-segment
ActiveOverlaysAtStart(overlays, seg_start, seg_end) ==
    SelectSeq(overlays, LAMBDA ov : ov.start <= seg_start /\ seg_start <= ov.end)

\* every overlay found for the window record taken as active
ActiveOverlaysAll(overlays, seg_start, seg_end) == overlays

\* overlays active for a sub-segment: their interval holds its midpoint
ActiveOverlays(overlays, seg_start, seg_end) ==
    SelectSeq(overlays, LAMBDA ov : ov.start <= Midpoint(seg_start, seg_end)
                                    /\ Midpoint(seg_start, seg_end) <= ov.end)

RECURSIVE SegmentsFromNoThreshold(_, _, _, _)
\* the loop without the 0.1 s test
SegmentsFromNoThreshold(points, i, base_item, overlays) ==
    IF i >= Len(points) THEN <<>>
    ELSE LET seg_start == points[i]
             seg_end == points[i + 1]
             item == [base_item EXCEPT !.timestamp = seg_start,
                                      !.duration = seg_end - seg_start,
                                      !.context = <<>>]
         IN <<FoldOverlays(item, ActiveOverlays(overlays, seg_start, seg_end))>>
            \o SegmentsFromNoThreshold(points, i + 1, base_item, overlays)

RECURSIVE SegmentsFromFirstPoint(_, _, _, _)
\* the loop starting every sub-segment at the first split point
SegmentsFromFirstPoint(points, i, base_item, overlays) ==
    IF i >= Len(points) THEN <<>>
    ELSE LET seg_start == points[1]
             seg_end == points[i + 1]
             item == [base_item EXCEPT !.timestamp = seg_start,
                                      !.duration = seg_end - seg_start,
                                      !.context = <<>>]
             rest == SegmentsFromFirstPoint(points, i + 1, base_item, overlays)
         IN IF item.duration < MinDuration THEN rest
            ELSE <<FoldOverlays(item, ActiveOverlays(overlays, seg_start, seg_end))>> \o rest

RECURSIVE SegmentsFrom(_, _, _, _)
\* the loop of _create_segments over consecutive split points
SegmentsFrom(points, i, base_item, overlays) ==
    IF i >= Len(points) THEN <<>>
    ELSE LET seg_start == points[i]
             seg_end == points[i + 1]
             item == [base_item EXCEPT !.timestamp = seg_start,
                                      !.duration = seg_end - seg_start,
                                      !.context = <<>>]
             rest == SegmentsFrom(points, i + 1, base_item, overlays)
         IN IF item.duration < MinDuration THEN rest
            ELSE <<FoldOverlays(item, ActiveOverlays(overlays, seg_start, seg_end))>> \o rest

create_segments(start, end, base_item, overlays) ==
    SegmentsFrom(SortedPoints(SegmentPoints(start, end, overlays)), 1, base_item, overlays)

\* clean_url(url) raises TypeError on a NaN url ("?" in url on a float)
SegmentsRaise(start, end, overlays) ==
    LET points == SortedPoints(SegmentPoints(start, end, overlays))
    IN \E i \in 1..(Len(points) - 1) :
          /\ points[i + 1] - points[i] >= MinDuration
          /\ \E k \in 1..Len(overlays) :
                /\ overlays[k].type = "web" /\ overlays[k].url = NaN
                /\ overlays[k].start <= Midpoint(points[i], points[i + 1])
                /\ Midpoint(points[i], points[i + 1]) <= overlays[k].end

\* active_projects of _create_segments: every project folded into a kept segment
SegmentProjects(start, end, overlays) ==
    LET points == SortedPoints(SegmentPoints(start, end, overlays))
        Kept == {i \in 1..(Len(points) - 1) : points[i + 1] - points[i] >= MinDuration}
        Act(i) == ActiveOverlays(overlays, points[i], points[i + 1])
    IN UNION {{Act(i)[k].project : k \in {j \in 1..Len(Act(i)) :
                    /\ Act(i)[j].type = "vscode"
                    /\ ~IsMissing(Act(i)[j].project)
                    /\ IsTruthy(Act(i)[j].project)}} : i \in Kept}

NO_TITLE == "No Title"

\* _df_to_items: a frame's rows as timeline items tagged with source_name
df_to_items(df, source_name, use_category) ==
    [i \in 1..Len(df) |->
        LET r == df[i]
            SafeVal(attr) == IF IsMissing(RowGet(df, r, attr)) THEN None
                             ELSE RowGet(df, r, attr)
            t0 == IF RowGet(df, r, "title") = None THEN "" ELSE RowGet(df, r, "title")
            t1 == IF t0 = "" /\ RowGet(df, r, "status") # None
                  THEN RowGet(df, r, "status") ELSE t0
        IN [timestamp |-> r.timestamp,
            duration |-> r.duration,
            end |-> NoTime,
            app |-> IF RowGet(df, r, "app") = None THEN UNKNOWN_APP
                    ELSE RowGet(df, r, "app"),
            title |-> IF t1 = "" THEN NO_TITLE ELSE t1,
            url |-> SafeVal("url"),
            file |-> SafeVal("file"),
            language |-> SafeVal("language"),
            status |-> SafeVal("status"),
            category |-> IF use_category THEN <<"Source:", source_name>> ELSE None,
            source |-> source_name,
            project |-> SafeVal("project"),
            context |-> <<>>]]

\* base_item of the main loop for one window row
BaseItem(row) ==
    [timestamp |-> row.timestamp, duration |-> 0, end |-> NoTime,
     app |-> row.app, title |-> row.title, context |-> <<>>, category |-> None,
     source |-> "Window", project |-> None, url |-> None, file |-> None,
     language |-> None, status |-> None]

\* the frames merge_timeline works on: window, afk, gap-filled vscode, web
WindowFrame(em) == events_to_df(em.window)
AfkFrame(em) == events_to_df(em.afk)
WebFrame(em) == events_to_df(em.web)
VscodeFrame(em, endt, clock) ==
    IF em.vscode = <<>> THEN <<>>
    ELSE flood_fill_gap(events_to_df(em.vscode), endt, clock)

\* _create_raw_snapshot: the items of the four frames, sorted, under a name
RawSnapshot(df_window, df_vscode, df_web, df_afk, name) ==
    [name |-> name, plugin |-> "Data Sources",
     timeline |-> SortByTimestamp(df_to_items(df_window, "Window", TRUE)
                                  \o df_to_items(df_vscode, "VSCode", TRUE)
                                  \o df_to_items(df_web, "Web", TRUE)
                                  \o df_to_items(df_afk, "AFK", TRUE))]

\* debug_snapshots after merge_timeline: the raw frames, and the filled ones
\* when there are editor rows
MergeSnapshots(em, endt, clock) ==
    <<RawSnapshot(WindowFrame(em), events_to_df(em.vscode), WebFrame(em), AfkFrame(em),
                  "Raw Data Sources")>>
    \o IF em.vscode = <<>> THEN <<>>
       ELSE <<RawSnapshot(WindowFrame(em), VscodeFrame(em, endt, clock), WebFrame(em),
                          AfkFrame(em), "Raw Data Sources (Filled)")>>

\* overlays found for window row k
RowOverlays(em, endt, clock, k) ==
    LET row == WindowFrame(em)[k]
    IN find_overlays(row.timestamp, row.end, Lower(row.app), row.title,
                     VscodeFrame(em, endt, clock), WebFrame(em))

\* pd.Interval(start, end) raises ValueError when start > end; clean_url raises
\* TypeError on a NaN url: either ends merge_timeline with the exception
MergeRaises(em, endt, clock) ==
    \E k \in 1..Len(WindowFrame(em)) :
        LET row == WindowFrame(em)[k]
        IN \/ IsInverted(row)
           \/ SegmentsRaise(row.timestamp, row.end, RowOverlays(em, endt, clock, k))

RECURSIVE MainLoop(_, _, _, _)
\* the main merge loop from window row k on
MainLoop(em, endt, clock, k) ==
    IF k > Len(WindowFrame(em)) THEN <<>>
    ELSE LET row == WindowFrame(em)[k]
         IN create_segments(row.timestamp, row.end, BaseItem(row),
                            RowOverlays(em, endt, clock, k))
            \o MainLoop(em, endt, clock, k + 1)

\* the timeline returned as collected, without the final sort
MergedTimelineAsCollected(em, endt, clock) ==
    MainLoop(em, endt, clock, 1) \o df_to_items(AfkFrame(em), "AFK", FALSE)

\* the timeline with the AFK items added inside the window branch only
MergedTimelineIdleUnderPrimary(em, endt, clock) ==
    IF WindowFrame(em) = <<>> THEN <<>>
    ELSE SortByTimestamp(MainLoop(em, endt, clock, 1)
                         \o df_to_items(AfkFrame(em), "AFK", FALSE))

\* the timeline merge_timeline returns: window segments, AFK items, sorted
MergedTimeline(em, endt, clock) ==
    SortByTimestamp(MainLoop(em, endt, clock, 1)
                    \o df_to_items(AfkFrame(em), "AFK", FALSE))

\* the project set merge_timeline returns
MergedProjects(em, endt, clock) ==
    UNION {LET row == WindowFrame(em)[k]
           IN SegmentProjects(row.timestamp, row.end, RowOverlays(em, endt, clock, k))
           : k \in 1..Len(WindowFrame(em))}

-----------------------------------------------------------------------------
(* TimelineStatsCalculator *)

\* the items analyze_working_hours takes for activity
IsActiveItem(item) == item.source # "AFK" /\ item.app # "afk"

\* an overlapping item moves the end of the current run to its own end
ExtendEndToNext(curr_end, next_end) == next_end

\* curr_end = max(curr_end, next_end)
ExtendEnd(curr_end, next_end) == Max(curr_end, next_end)

RECURSIVE MergeIntervals(_, _, _, _, _)
\* the loop over active_items[1:] and the addition of the last run
MergeIntervals(active_items, i, curr_start, curr_end, merged_duration) ==
    IF i > Len(active_items) THEN merged_duration + (curr_end - curr_start)
    ELSE LET next_start == active_items[i].timestamp
             next_end == next_start + active_items[i].duration
         IN IF next_start < curr_end
            THEN MergeIntervals(active_items, i + 1, curr_start,
                                ExtendEnd(curr_end, next_end), merged_duration)
            ELSE MergeIntervals(active_items, i + 1, next_start, next_end,
                                merged_duration + (curr_end - curr_start))

\* analyze_working_hours(timeline, merged_segments, config) read at the clock
analyze_working_hours(tl, break_categories, clock) ==
    IF tl = <<>>
    THEN [start |-> clock, end |-> clock, working_seconds |-> 0, break_seconds |-> 0,
          afk_seconds |-> 0]
    ELSE LET start == SetMin({tl[i].timestamp : i \in 1..Len(tl)})
             end == SetMax({tl[i].timestamp + tl[i].duration : i \in 1..Len(tl)})
             total_span == end - start
             active_items == SortByTimestamp(SelectSeq(tl, IsActiveItem))
             merged_duration ==
                 IF active_items = <<>> THEN 0
                 ELSE MergeIntervals(active_items, 2, active_items[1].timestamp,
                                     active_items[1].timestamp + active_items[1].duration, 0)
             afk_seconds == Max(0, total_span - merged_duration)
             break_items == SelectSeq(active_items,
                                      LAMBDA item : item.category \in break_categories)
             manual_break_seconds ==
                 SumSeq([i \in 1..Len(break_items) |-> break_items[i].duration])
             total_break_seconds == afk_seconds + manual_break_seconds
             working_seconds == Max(0, total_span - total_break_seconds)
         IN [start |-> start, end |-> end, working_seconds |-> working_seconds,
             break_seconds |-> total_break_seconds, afk_seconds |-> afk_seconds]

-----------------------------------------------------------------------------
(* PluginManager *)

afk_pid == "aw_daily_reporter.plugins.processor_afk.AFKProcessor"
extractor_pid == "aw_daily_reporter.plugins.processor_project_extractor.ProjectExtractionProcessor"
mapping_pid == "aw_daily_reporter.plugins.processor_project_mapping.ProjectMappingProcessor"
rule_pid == "aw_daily_reporter.plugins.processor_rule_matching.RuleMatchingProcessor"
compression_pid == "aw_daily_reporter.plugins.processor_compression.CompressionProcessor"
git_pid == "aw_daily_reporter.plugins.scanner_git.GitScanner"
markdown_pid == "aw_daily_reporter.plugins.renderer_markdown.MarkdownRendererPlugin"
ai_pid == "aw_daily_reporter.plugins.renderer_ai.AIRendererPlugin"
json_pid == "aw_daily_reporter.plugins.renderer_json.JSONRendererPlugin"

\* a plugin instance: BasePlugin.plugin_id and the name of the subclass
Plugin(id, name) == [plugin_id |-> id, name |-> name]

\* load_builtin_plugins: the three lists in the order of registration
scanners == <<Plugin(git_pid, "Git Activity Scanner")>>
processors ==
    <<Plugin(afk_pid, "AFK Processing"),
      Plugin(rule_pid, "Rule Matching"),
      Plugin(extractor_pid, "Project Extraction"),
      Plugin(mapping_pid, "Project Mapping"),
      Plugin(compression_pid, "Timeline Aggregation")>>
renderers ==
    <<Plugin(markdown_pid, "Markdown Renderer"),
      Plugin(ai_pid, "AI Context Renderer"),
      Plugin(json_pid, "JSON Renderer")>>

\* an entry of plugins.json; a key the entry does not carry is None, and an
\* entry without "enabled" counts as enabled
ConfigEntry(id, name, enabled) ==
    [plugin_id |-> id, name |-> name, slug |-> None, enabled |-> enabled]

\* {"plugin_id": p.plugin_id, "enabled": True}
NewEntry(p) == ConfigEntry(p.plugin_id, None, TRUE)

\* next((pl for pl in plugins if ...), None), as a list of at most one plugin
FindByName(plugins, name) == FirstOf(SelectSeq(plugins, LAMBDA pl : pl.name = name))
FindById(plugins, id) == FirstOf(SelectSeq(plugins, LAMBDA pl : pl.plugin_id = id))

\* the first loop: an entry without plugin_id takes the id of the plugin of its name
IsMigrated(p, plugins) == p.plugin_id = None /\ FindByName(plugins, p.name) # <<>>
Migrate(config, plugins) ==
    [i \in 1..Len(config) |->
        IF IsMigrated(config[i], plugins)
        THEN [config[i] EXCEPT !.plugin_id = FindByName(plugins, config[i].name)[1].plugin_id]
        ELSE config[i]]

\* needs_migration: an id was filled in, or an id occurs twice
NeedsMigration(config, plugins) ==
    \/ \E i \in 1..Len(config) : IsMigrated(config[i], plugins)
    \/ \E i, j \in 1..Len(config) :
          /\ i < j
          /\ Migrate(config, plugins)[i].plugin_id # None
          /\ Migrate(config, plugins)[i].plugin_id = Migrate(config, plugins)[j].plugin_id

\* the keys of config_map
ConfigKeys(config) ==
    {IF config[i].plugin_id # None THEN config[i].plugin_id ELSE config[i].name :
        i \in 1..Len(config)}

RECURSIVE ConfiguredFrom(_, _, _)
\* the second loop: the enabled entries' plugins, in the order of the entries
ConfiguredFrom(config, plugins, i) ==
    IF i > Len(config) THEN <<>>
    ELSE LET cfg == config[i]
             found == IF cfg.plugin_id # None THEN FindById(plugins, cfg.plugin_id)
                      ELSE IF cfg.slug # None THEN <<>>
                      ELSE IF cfg.name # None THEN FindByName(plugins, cfg.name)
                      ELSE <<>>
         IN (IF found # <<>> /\ cfg.enabled THEN found ELSE <<>>)
                \o ConfiguredFrom(config, plugins, i + 1)

\* the plugins no entry of the configuration names
NewPlugins(config, plugins) ==
    SelectSeq(plugins, LAMBDA p : p.plugin_id \notin ConfigKeys(config))

\* list.remove and list.insert
Without(l, id) == SelectSeq(l, LAMBDA p : p.plugin_id # id)
InsertAt(l, i, e) == SubSeq(l, 1, i - 1) \o <<e>> \o SubSeq(l, i, Len(l))

\* the names the entry of Project Mapping went by before it had an id (the
\* second is the Japanese display name)
MappingNames == {"Project Mapping", "Project Mapping (ja)"}

\* target_index, counted from 1; 0 when no entry is Project Mapping's
TargetIndex(config) ==
    LET hits == {i \in 1..Len(config) :
                    config[i].plugin_id = mapping_pid \/ config[i].name \in MappingNames}
    IN IF hits = {} THEN 0 ELSE SetMin(hits)

\* whether the de-duplication keeps entry i: it has no id or is the first of its id
KeptByDedup(config, i) ==
    \/ config[i].plugin_id = None
    \/ ~\E j \in 1..(i - 1) : config[j].plugin_id = config[i].plugin_id

\* del item["slug"]; del item["name"] for an entry that has an id
Cleanup(item) ==
    IF item.plugin_id # None THEN [item EXCEPT !.slug = None, !.name = None] ELSE item

RECURSIVE DedupFrom(_, _)
DedupFrom(config, i) ==
    IF i > Len(config) THEN <<>>
    ELSE (IF KeptByDedup(config, i) THEN <<Cleanup(config[i])>> ELSE <<>>)
            \o DedupFrom(config, i + 1)

\* _get_ordered_plugins(plugins) on the configuration the manager holds:
\* the list returned, whether the configuration is written, the configuration
\* written and held afterwards, and the one held when the write fails
get_ordered_plugins(plugin_cfg, plugins) ==
    LET config == Migrate(plugin_cfg, plugins)
        ordered0 == ConfiguredFrom(config, plugins, 1)
        new0 == NewPlugins(config, plugins)
        updates == new0 # <<>> \/ plugin_cfg = <<>> \/ NeedsMigration(plugin_cfg, plugins)
        afk == FindById(new0, afk_pid)
        new1 == IF afk # <<>> THEN Without(new0, afk_pid) ELSE new0
        config1 == IF afk # <<>> THEN <<NewEntry(afk[1])>> \o config ELSE config
        ordered1 == IF afk # <<>> /\ ~\E i \in 1..Len(ordered0) : ordered0[i] = afk[1]
                    THEN <<afk[1]>> \o ordered0 ELSE ordered0
        extractor == FindById(new1, extractor_pid)
        new2 == IF extractor # <<>> THEN Without(new1, extractor_pid) ELSE new1
        config2 == IF extractor = <<>> THEN config1
                   ELSE IF TargetIndex(config1) > 0
                        THEN InsertAt(config1, TargetIndex(config1), NewEntry(extractor[1]))
                        ELSE Append(config1, NewEntry(extractor[1]))
        ordered2 == IF extractor = <<>> THEN ordered1
                    ELSE Append(ordered1, extractor[1])
        config3 == config2 \o [i \in 1..Len(new2) |-> NewEntry(new2[i])]
        ordered3 == ordered2 \o new2
    IN IF updates
       THEN [ordered |-> ordered3, saves |-> TRUE, saved |-> DedupFrom(config3, 1),
             unsaved |-> [i \in 1..Len(config) |->
                            IF KeptByDedup(config, i) THEN Cleanup(config[i])
                            ELSE config[i]]]
       ELSE [ordered |-> ordered0, saves |-> FALSE, saved |-> plugin_cfg,
             unsaved |-> plugin_cfg]

-----------------------------------------------------------------------------
(* CompressionProcessor *)

\* any(m in app_lower for m in meeting_apps), on the app names of the model
IsMeetingApp(app_lower, meeting_apps) == app_lower \in meeting_apps

\* is_generic(t): the title names a meeting app, "waiting" or "unknown"
IsGenericTitle(t, meeting_apps) ==
    \/ t = "Zoom Meeting" /\ "zoom" \in meeting_apps
    \/ t \in {"Waiting for host", "Unknown"}

\* the title a new group of a project starts with
ProjectTitle(row) ==
    IF row.file # None /\ row.file # ""
    THEN CASE row.project = "proj" -> "[proj] (Multiple file edits)"
           [] OTHER -> "[other] (Multiple file edits)"
    ELSE IF row.category # None /\ row.category # ""
         THEN CASE row.project = "proj" -> "[proj] (Programming)"
                [] OTHER -> "[other] (Programming)"
         ELSE row.title

\* context accumulation (unique)
RECURSIVE AddContext(_, _)
AddContext(context, row_context) ==
    IF row_context = <<>> THEN context
    ELSE AddContext(IF \E k \in 1..Len(context) : context[k] = Head(row_context)
                    THEN context ELSE Append(context, Head(row_context)),
                    Tail(row_context))

\* the files a row adds to current_files
FilesOf(row) == IF row.file # None /\ row.file # "" THEN {row.file} ELSE {}

\* --- MERGE ---
MergeInto(group, row, meeting_apps) ==
    [group EXCEPT
        !.duration = @ + row.duration,
        !.context = AddContext(@, row.context),
        !.client = IF @ = None /\ row.client # None THEN row.client ELSE @,
        !.title = IF IsMeetingApp(Lower(row.app), meeting_apps)
                     /\ IsGenericTitle(@, meeting_apps)
                     /\ ~IsGenericTitle(row.title, meeting_apps)
                  THEN row.title ELSE @]

\* the else branch of the test on is_git, current_group, project and category
StartsNewGroup(row, current_group) ==
    \/ row.app = "Git"
    \/ current_group = <<>>
    \/ current_group[1].project # row.project
    \/ current_group[1].category # row.category

\* START NEW: the group a row opens
NewGroup(row) ==
    [timestamp |-> row.timestamp, duration |-> row.duration, app |-> row.app,
     title |-> IF row.project # None /\ row.project # "" /\ row.app # "Git"
               THEN ProjectTitle(row) ELSE row.title,
     context |-> row.context, category |-> row.category, project |-> row.project,
     client |-> row.client, url |-> row.url, file |-> row.file,
     language |-> row.language]

\* _finalize_group: the files edited, added to the context
finalize_group(group, files) ==
    IF files # {} THEN [group EXCEPT !.context = Append(@, <<"Edited files", files>>)]
    ELSE group

RECURSIVE CompressFrom(_, _, _, _, _, _)
\* the loop over df.itertuples() from row i on, and the last group
CompressFrom(df, i, current_group, current_files, compressed_rows, meeting_apps) ==
    IF i > Len(df)
    THEN IF current_group # <<>>
         THEN Append(compressed_rows, finalize_group(current_group[1], current_files))
         ELSE compressed_rows
    ELSE IF ~StartsNewGroup(df[i], current_group)
         THEN CompressFrom(df, i + 1, <<MergeInto(current_group[1], df[i], meeting_apps)>>,
                           current_files \cup FilesOf(df[i]), compressed_rows, meeting_apps)
         ELSE CompressFrom(df, i + 1, <<NewGroup(df[i])>>, FilesOf(df[i]),
                           IF current_group # <<>>
                           THEN Append(compressed_rows,
                                       finalize_group(current_group[1], current_files))
                           ELSE compressed_rows,
                           meeting_apps)

\* CompressionProcessor.process(df, config)
Compress(df, meeting_apps) == CompressFrom(df, 1, <<>>, {}, <<>>, meeting_apps)

-----------------------------------------------------------------------------
(* PluginManager.run_pipeline_with_snapshots *)

\* isinstance(plugin, ScannerPlugin) and isinstance(plugin, ProcessorPlugin)
IsScanner(plugin) == \E i \in 1..Len(scanners) : scanners[i] = plugin
IsProcessor(plugin) == \E i \in 1..Len(processors) : processors[i] = plugin

\* what a scanner returns: strings, dicts (a dict without the key "timestamp"
\* has NoTime there) and objects that are neither
ScanLine(text) == [kind |-> "str", text |-> text, timestamp |-> NoTime]
ScanDict(ts) == [kind |-> "dict", text |-> None, timestamp |-> ts]
ScanObject == [kind |-> "TimelineItem", text |-> None, timestamp |-> NoTime]

\* the row of the timeline a dict of a scanner becomes
ScannedRow(item, plugin) == [timestamp |-> item.timestamp, source |-> plugin.name]

IsStr(item) == item.kind = "str"
IsDict(item) == item.kind = "dict"

\* the lines the loop adds to scan_summary: the header in front of the first string
HeaderLine(plugin) == "\n# " \o plugin.name
FailureLine(plugin, e) == "\n# " \o plugin.name \o " (Failed): " \o e
ScanLines(scan_result, plugin) ==
    LET strs == SelectSeq(scan_result, IsStr)
    IN IF strs = <<>> THEN <<>>
       ELSE <<HeaderLine(plugin)>> \o [i \in 1..Len(strs) |-> strs[i].text]

\* current_timeline.append(item) for every dict
Appended(current_timeline, scan_result, plugin) ==
    LET dicts == SelectSeq(scan_result, IsDict)
    IN current_timeline \o [i \in 1..Len(dicts) |-> ScannedRow(dicts[i], plugin)]

\* x["timestamp"] raises KeyError for a row without the key
SortRaises(tl) == \E i \in 1..Len(tl) : tl[i].timestamp = NoTime

\* the scanner branch: outcome.raised tells whether plugin.scan raised
\* outcome.error, and outcome.result is what it returned otherwise
AfterScan(current_timeline, scan_summary, plugin, outcome) ==
    LET grown == Appended(current_timeline, outcome.result, plugin)
        sorts == \E i \in 1..Len(outcome.result) : IsDict(outcome.result[i])
        lines == scan_summary \o ScanLines(outcome.result, plugin)
    IN IF outcome.raised
       THEN [current_timeline |-> current_timeline, raised |-> TRUE,
             scan_summary |-> Append(scan_summary, FailureLine(plugin, outcome.error))]
       ELSE IF outcome.result = <<>>
       THEN [current_timeline |-> current_timeline, raised |-> FALSE,
             scan_summary |-> scan_summary]
       ELSE IF sorts /\ SortRaises(grown)
       THEN [current_timeline |-> grown, raised |-> TRUE,
             scan_summary |-> Append(lines, FailureLine(plugin, "'timestamp'"))]
       ELSE [current_timeline |-> IF sorts THEN SortByTimestamp(grown) ELSE grown,
             raised |-> FALSE, scan_summary |-> lines]

\* a failing processor's work is taken over all the same
AfterProcessPartial(current_timeline, outcome) == outcome.value

\* the processor branch: current_timeline = plugin.process(current_timeline,
\* config) inside try; when process raises, outcome.value is what it had made
\* of the timeline so far, and the assignment does not happen
AfterProcess(current_timeline, outcome) ==
    IF outcome.raised THEN current_timeline ELSE outcome.value

\* snapshots.append({"name": ..., "timeline": copy.deepcopy(current_timeline), ...})
Snapshot(name, tl, plugin_name) == [name |-> name, timeline |-> tl, plugin |-> plugin_name]

-----------------------------------------------------------------------------
(* Inputs *)

GridTime(k) == k + k        \* grid step k as a tick

Starts == {GridTime(k) : k \in 0..MaxStart}
Durations == {GridTime(k) : k \in 0..MaxDur}
InvertedDurations == {GridTime(0 - 1)}

\* a raw event: the attributes its source does not carry are None
RawEvent(ts, dur, attrs) ==
    [timestamp |-> ts, duration |-> dur, end |-> NoTime,
     app |-> attrs.app, title |-> attrs.title, file |-> attrs.file,
     language |-> attrs.language, project |-> attrs.project,
     url |-> attrs.url, status |-> attrs.status]

NoAttrs == [app |-> None, title |-> None, file |-> None, language |-> None,
            project |-> None, url |-> None, status |-> None]

WindowAttrs == {[NoAttrs EXCEPT !.app = a, !.title = "Docs - Chrome"] : a \in {"Code", "Chrome"}}
VscodeAttrs == {[NoAttrs EXCEPT !.file = "a.py", !.language = "python", !.project = "proj"],
                NoAttrs}
WebAttrs == {[NoAttrs EXCEPT !.url = "http://a?q", !.title = "Docs"],
             [NoAttrs EXCEPT !.title = "Do"]}
AfkAttrs == {[NoAttrs EXCEPT !.status = st] : st \in {"not-afk", "afk"}}

EventsOf(attrs) ==
    {RawEvent(ts, dur, a) : ts \in Starts, dur \in Durations \cup InvertedDurations,
                            a \in attrs}

\* how many events each source contributes: at most MaxEvents together
EventCounts ==
    {c \in [window : 0..MaxEvents, vscode : 0..MaxEvents, web : 0..MaxEvents,
            afk : 0..MaxEvents] : c.window + c.vscode + c.web + c.afk <= MaxEvents}

\* the event maps with c.window window events, c.vscode editor events, ...
EventMapsOf(c) ==
    [window : [1..c.window -> EventsOf(WindowAttrs)],
     vscode : [1..c.vscode -> EventsOf(VscodeAttrs)],
     web : [1..c.web -> EventsOf(WebAttrs)],
     afk : [1..c.afk -> EventsOf(AfkAttrs)]]

\* one window record, and at most MaxOverlays editor and browser records on a
\* coarser choice of durations; the editor records name two files
EditorAttrs ==
    VscodeAttrs \cup {[NoAttrs EXCEPT !.file = "b.py", !.language = "python", !.project = "proj"]}

OverlayDurations == {GridTime(k) : k \in 0..MaxOverlayDur}

OverlayEventsOf(attrs) ==
    {RawEvent(ts, dur, a) : ts \in Starts, dur \in OverlayDurations, a \in attrs}

PrimaryEvents == {RawEvent(ts, dur, a) : ts \in Starts, dur \in Durations, a \in WindowAttrs}

OverlayCounts ==
    {c \in [vscode : 0..MaxOverlays, web : 0..MaxOverlays] : c.vscode + c.web <= MaxOverlays}

OverlayMapsOf(c) ==
    [window : [1..1 -> PrimaryEvents],
     vscode : [1..c.vscode -> OverlayEventsOf(EditorAttrs)],
     web : [1..c.web -> OverlayEventsOf(WebAttrs)],
     afk : {<<>>}]

\* the inputs of one of two merge_timeline calls made side by side: at most
\* one window record and one editor record
CallEvents(attrs) ==
    {RawEvent(GridTime(k), GridTime(2), a) : k \in 0..MaxCallStart, a \in attrs}

CallEventMaps ==
    [window : UNION {[1..n -> CallEvents({[NoAttrs EXCEPT !.app = "Code", !.title = "Docs"]})]
                        : n \in 0..1},
     vscode : UNION {[1..n -> CallEvents({[NoAttrs EXCEPT !.file = "a.py",
                                                   !.language = "python"]})] : n \in 0..1},
     web : {<<>>},
     afk : {<<>>}]

Mergers == {1, 2}       \* the TimelineMerger instances
Callers == {1, 2}       \* the two calls

EmptyEventMap == [window |-> <<>>, vscode |-> <<>>, web |-> <<>>, afk |-> <<>>]

\* a timeline item as a caller of AFKProcessor.process builds it
Item(ts, dur, kind) ==
    [timestamp |-> ts, duration |-> dur, end |-> NoTime, app |-> kind.app,
     title |-> "Work", context |-> <<>>, category |-> None, source |-> kind.source,
     project |-> None, url |-> None, file |-> None, language |-> None,
     status |-> kind.status]

ItemKinds ==
    {[app |-> "Code", source |-> "Window", status |-> None],
     [app |-> "loginwindow", source |-> "Window", status |-> None],
     [app |-> "aw-watcher-afk", source |-> "AFK", status |-> "not-afk"],
     [app |-> "aw-watcher-afk", source |-> "AFK", status |-> "afk"]}

Items == {Item(ts, dur, k) : ts \in Starts, dur \in Durations, k \in ItemKinds}

\* the same items with the login window also under its capitalised name
AppItems ==
    Items \cup {Item(ts, dur, [app |-> "LoginWindow", source |-> "Window", status |-> None]) :
                    ts \in Starts, dur \in Durations}

\* config["plugins"][plugin_id]: without the key, with an empty list, and with
\* lists naming the editor, the login window and the file manager
NoAfkConfig == [keys |-> {}, afk_system_apps |-> <<>>]
AfkConfig(names) == [keys |-> {"afk_system_apps"}, afk_system_apps |-> names]
AfkConfigs ==
    {NoAfkConfig, AfkConfig(<<>>), AfkConfig(<<"Code">>), AfkConfig(<<"LoginWindow">>),
     AfkConfig(<<"code", "Finder">>)}

\* the items handed to analyze_working_hours: activity, a lunch break, an idle
\* item, and a window of an application called afk
StatsKinds ==
    {[app |-> "Code", source |-> "Window", status |-> None, category |-> "Coding"],
     [app |-> "Code", source |-> "Window", status |-> None, category |-> "Lunch"],
     [app |-> "Unknown", source |-> "AFK", status |-> "afk", category |-> "AFK"],
     [app |-> "afk", source |-> "Window", status |-> None, category |-> "Coding"]}

StatsItems ==
    {[Item(GridTime(ts), GridTime(dur), k) EXCEPT !.category = k.category] :
        ts \in 0..MaxStatsStart, dur \in 0..MaxStatsDur, k \in StatsKinds}

\* config["settings"]["break_categories"]
BreakCategories == {{}, {"Lunch"}}

\* the entries a plugins.json on disk is made of: an id enabled or disabled,
\* or the name an entry carried before ids were introduced
ConfigEntries ==
    {ConfigEntry(id, None, en) :
        id \in {afk_pid, rule_pid, extractor_pid, mapping_pid, compression_pid, git_pid,
                markdown_pid},
        en \in BOOLEAN}
    \cup {ConfigEntry(None, name, TRUE) : name \in {"Project Mapping", "Rule Matching"}}

\* the rows handed to CompressionProcessor: a commit, edits of two files in
\* the commit's project and in another, a page, and a meeting under its
\* generic and its own title
CompressKinds ==
    {[app |-> "Git", title |-> "[proj] Commit 1", project |-> "proj",
      category |-> "Programming", file |-> None, client |-> None,
      context |-> <<<<"Author", "a">>>>],
     [app |-> "Code", title |-> "a.py", project |-> "proj", category |-> "Programming",
      file |-> "a.py", client |-> "acme", context |-> <<<<"[VSCode]", "a.py", "python">>>>],
     [app |-> "Code", title |-> "b.py", project |-> "proj", category |-> "Programming",
      file |-> "b.py", client |-> None, context |-> <<>>],
     [app |-> "Code", title |-> "a.py", project |-> "other", category |-> "Programming",
      file |-> "a.py", client |-> None, context |-> <<<<"[VSCode]", "a.py", "python">>>>],
     [app |-> "Chrome", title |-> "Docs", project |-> None, category |-> None,
      file |-> None, client |-> None, context |-> <<>>],
     [app |-> "Zoom", title |-> "Zoom Meeting", project |-> None, category |-> "Meeting",
      file |-> None, client |-> None, context |-> <<>>],
     [app |-> "Zoom", title |-> "Standup", project |-> None, category |-> "Meeting",
      file |-> None, client |-> None, context |-> <<>>]}

CompressDurations == {GridTime(2), GridTime(3)}

\* row i of the frame: the rows follow one another in time
CompressRow(i, k, dur) ==
    [timestamp |-> GridTime(MaxDur) * i, duration |-> dur, app |-> k.app, title |-> k.title,
     context |-> k.context, category |-> k.category, project |-> k.project,
     client |-> k.client, url |-> None, file |-> k.file, language |-> None]

\* config["apps"]["meetings"]
MeetingApps == {"zoom", "teams"}

\* the timelines handed to the pipeline
PipelineRow(k) == [timestamp |-> GridTime(k), source |-> "Window"]
PipelineTimelines ==
    {[i \in 1..n |-> PipelineRow(i)] : n \in 0..MaxPipelineRows}

\* what a scanner may return: nothing, summary lines, rows in front of and
\* behind the timeline's, an object that is neither, and a dict without timestamp
ScanResults ==
    {<<>>,
     <<ScanLine("1 commit")>>,
     <<ScanDict(GridTime(MaxPipelineRows + 1)), ScanDict(GridTime(0))>>,
     <<ScanLine("1 commit"), ScanDict(GridTime(0))>>,
     <<ScanObject>>,
     <<ScanLine("1 commit"), ScanDict(NoTime)>>}
ScanOutcomes ==
    {[raised |-> FALSE, result |-> r, error |-> None] : r \in ScanResults}
        \cup {[raised |-> TRUE, result |-> <<>>, error |-> "git not found"]}

\* what a processor may make of a timeline: the same rows, or all but the first
ProcessResults(tl) == {tl} \cup (IF tl = <<>> THEN {} ELSE {Tail(tl)})
ProcessOutcomes(tl) ==
    {[raised |-> b, value |-> v] : b \in BOOLEAN, v \in ProcessResults(tl)}

\* the title tells the rows of a timeline apart
RowTitle(i) == CASE i = 1 -> "Work 1" [] i = 2 -> "Work 2" [] i = 3 -> "Work 3"
                 [] OTHER -> "Work 4"

Retitled(f) == [i \in 1..Len(f) |-> [f[i] EXCEPT !.title = RowTitle(i)]]

-----------------------------------------------------------------------------
(* The run *)

\* the WorkStats no call has returned yet
NoStats == [start |-> NoTime, end |-> NoTime, working_seconds |-> 0, break_seconds |-> 0,
            afk_seconds |-> 0]

StatsUnstarted ==
    /\ stats_config = {}
    /\ work_stats = NoStats

\* plugins.json: no file, or a file with a list of entries
NoFile == [exists |-> FALSE, entries |-> <<>>]
File(entries) == [exists |-> TRUE, entries |-> entries]
NoCall == [caller |-> "none", loaded |-> <<>>, saved |-> FALSE]

\* a PluginManager nobody has created
ManagerUnstarted ==
    /\ plugins_json = NoFile
    /\ plugin_config = <<>>
    /\ ordered_plugins = <<>>
    /\ last_call = NoCall

\* run_pipeline_with_snapshots before its call
NoPipeline ==
    [all_plugins |-> <<>>, index |-> 0, current_timeline |-> <<>>, snapshots |-> <<>>,
     scan_summary |-> <<>>, include_snapshots |-> FALSE, handed |-> <<>>]

\* the later stages before any of them has run
DownstreamUnstarted ==
    /\ StatsUnstarted
    /\ ManagerUnstarted
    /\ compressed = <<>>
    /\ pipeline = NoPipeline
    /\ afk_plugin_config = NoAfkConfig

\* the outputs no operation has written yet
NoRerun == [now |-> NoTime, status |-> "none", timeline |-> <<>>, result |-> <<>>]

\* the engine at rest
EngineIdle ==
    /\ events_map = EmptyEventMap
    /\ end_time = NoTime
    /\ now = GridTime(MaxStart + MaxDur)
    /\ merge_status = "none"
    /\ timeline = <<>>
    /\ active_projects = {}
    /\ debug_snapshots = <<>>
    /\ df_vscode_filled = <<>>
    /\ df_active = <<>>
    /\ active_ranges = <<>>
    /\ result = <<>>
    /\ result2 = <<>>
    /\ rerun = NoRerun
    /\ calls = <<>>
    /\ merger_snapshots = <<>>

Unstarted ==
    /\ merge_status = "none"
    /\ timeline = <<>>
    /\ active_projects = {}
    /\ debug_snapshots = <<>>
    /\ df_vscode_filled = <<>>
    /\ df_active = <<>>
    /\ active_ranges = <<>>
    /\ result = <<>>
    /\ result2 = <<>>
    /\ rerun = NoRerun
    /\ calls = <<>>
    /\ merger_snapshots = <<>>
    /\ DownstreamUnstarted

\* the session ends and clock readings that go with an event map
SessionEnds(em) ==
    IF em.vscode = <<>> THEN {NoTime}
    ELSE {NoTime, GridTime(1), GridTime(MaxStart + MaxDur)}
Clocks(em, endt) ==
    IF em.vscode = <<>> \/ endt = NoTime THEN {GridTime(MaxStart + MaxDur)}
    ELSE {GridTime(MaxStart), GridTime(MaxStart + MaxDur)}

Init ==
    /\ pc = "start"
    /\ \E c \in EventCounts : events_map \in EventMapsOf(c)
    /\ end_time \in SessionEnds(events_map)
    /\ now \in Clocks(events_map, end_time)
    /\ Unstarted

\* a direct call of AFKProcessor.process on a timeline
InitAFK ==
    /\ pc = "merged"
    /\ events_map = EmptyEventMap
    /\ end_time = NoTime
    /\ now = 0
    /\ merge_status = "none"
    /\ \E k \in 0..MaxRows : \E f \in [1..k -> Items] : timeline = Retitled(f)
    /\ active_projects = {}
    /\ debug_snapshots = <<>>
    /\ df_vscode_filled = <<>>
    /\ df_active = <<>>
    /\ active_ranges = <<>>
    /\ result = <<>>
    /\ result2 = <<>>
    /\ rerun = NoRerun
    /\ calls = <<>>
    /\ merger_snapshots = <<>>
    /\ DownstreamUnstarted

\* a direct call of AFKProcessor.process on a timeline with system apps
InitApps ==
    /\ pc = "merged"
    /\ events_map = EmptyEventMap
    /\ end_time = NoTime
    /\ now = 0
    /\ \E k \in 0..MaxAppRows : \E f \in [1..k -> AppItems] : timeline = Retitled(f)
    /\ merge_status = "none"
    /\ active_projects = {}
    /\ debug_snapshots = <<>>
    /\ df_vscode_filled = <<>>
    /\ df_active = <<>>
    /\ active_ranges = <<>>
    /\ result = <<>>
    /\ result2 = <<>>
    /\ rerun = NoRerun
    /\ calls = <<>>
    /\ merger_snapshots = <<>>
    /\ DownstreamUnstarted

\* a direct call of AFKProcessor.process with a configured section
InitConfigured ==
    /\ pc = "merged"
    /\ events_map = EmptyEventMap
    /\ end_time = NoTime
    /\ now = 0
    /\ \E k \in 0..MaxAppRows : \E f \in [1..k -> AppItems] : timeline = Retitled(f)
    /\ merge_status = "none"
    /\ active_projects = {}
    /\ debug_snapshots = <<>>
    /\ df_vscode_filled = <<>>
    /\ df_active = <<>>
    /\ active_ranges = <<>>
    /\ result = <<>>
    /\ result2 = <<>>
    /\ rerun = NoRerun
    /\ calls = <<>>
    /\ merger_snapshots = <<>>
    /\ StatsUnstarted
    /\ ManagerUnstarted
    /\ compressed = <<>>
    /\ pipeline = NoPipeline
    /\ afk_plugin_config \in AfkConfigs

\* two merge_timeline calls about to start, on one TimelineMerger or on two
InitCalls ==
    /\ pc = "calls"
    /\ events_map = EmptyEventMap
    /\ end_time = NoTime
    /\ now = GridTime(MaxStart + MaxDur)
    /\ merge_status = "none"
    /\ timeline = <<>>
    /\ active_projects = {}
    /\ debug_snapshots = <<>>
    /\ df_vscode_filled = <<>>
    /\ df_active = <<>>
    /\ active_ranges = <<>>
    /\ result = <<>>
    /\ result2 = <<>>
    /\ rerun = NoRerun
    /\ \E em1, em2 \in CallEventMaps : \E m \in Mergers :
          calls = [c \in Callers |->
                      [merger |-> IF c = 1 THEN 1 ELSE m,
                       events_map |-> IF c = 1 THEN em1 ELSE em2,
                       end_time |-> NoTime,
                       pc |-> "entry",
                       timeline |-> <<>>,
                       projects |-> {},
                       snapshots |-> <<>>]]
    /\ merger_snapshots = [m \in Mergers |-> <<>>]
    /\ DownstreamUnstarted

\* self.debug_snapshots = []
ResetSnapshots(snaps, m) == [snaps EXCEPT ![m] = <<>>]

\* the append kept in one list that every instance sees
AppendSnapshotForAll(snaps, m, snapshot) == [k \in DOMAIN snaps |-> Append(snaps[k], snapshot)]

\* self.debug_snapshots.append(snapshot)
AppendSnapshot(snaps, m, snapshot) == [snaps EXCEPT ![m] = Append(@, snapshot)]

\* what a step of a call leaves alone
CallFrame ==
    UNCHANGED <<pc, events_map, end_time, now, merge_status, timeline, active_projects,
                debug_snapshots, df_vscode_filled, df_active, active_ranges, result,
                result2, rerun, downstream>>

\* merge_timeline, first statement
CallReset(c) ==
    /\ pc = "calls" /\ calls[c].pc = "entry"
    /\ merger_snapshots' = ResetSnapshots(merger_snapshots, calls[c].merger)
    /\ calls' = [calls EXCEPT ![c].pc = "snapshot"]
    /\ CallFrame

\* merge_timeline: the frames and the snapshot of the raw data
CallSnapshotRaw(c) ==
    /\ pc = "calls" /\ calls[c].pc = "snapshot"
    /\ merger_snapshots' =
          AppendSnapshot(merger_snapshots, calls[c].merger,
                         MergeSnapshots(calls[c].events_map, calls[c].end_time, now)[1])
    /\ calls' = [calls EXCEPT ![c].pc = IF calls[c].events_map.vscode = <<>> THEN "loop"
                                         ELSE "fill"]
    /\ CallFrame

\* merge_timeline: gap filling and the snapshot of the filled data
CallFloodFill(c) ==
    /\ pc = "calls" /\ calls[c].pc = "fill"
    /\ merger_snapshots' =
          AppendSnapshot(merger_snapshots, calls[c].merger,
                         MergeSnapshots(calls[c].events_map, calls[c].end_time, now)[2])
    /\ calls' = [calls EXCEPT ![c].pc = "loop"]
    /\ CallFrame

\* merge_timeline: the main loop, the AFK items, the sort and the return
CallReturn(c) ==
    /\ pc = "calls" /\ calls[c].pc = "loop"
    /\ ~MergeRaises(calls[c].events_map, calls[c].end_time, now)
    /\ calls' = [calls EXCEPT
                    ![c].pc = "returned",
                    ![c].timeline = MergedTimeline(calls[c].events_map, calls[c].end_time, now),
                    ![c].projects = MergedProjects(calls[c].events_map, calls[c].end_time, now)]
    /\ UNCHANGED merger_snapshots
    /\ CallFrame

\* TimelineGenerator.run: initial_snapshots = self.merger.debug_snapshots.copy()
CallReadSnapshots(c) ==
    /\ pc = "calls" /\ calls[c].pc = "returned"
    /\ calls' = [calls EXCEPT ![c].pc = "done",
                              ![c].snapshots = merger_snapshots[calls[c].merger]]
    /\ UNCHANGED merger_snapshots
    /\ CallFrame

\* one window record under editor and browser records
InitOverlay ==
    /\ pc = "start"
    /\ \E c \in OverlayCounts : events_map \in OverlayMapsOf(c)
    /\ end_time \in SessionEnds(events_map)
    /\ now \in Clocks(events_map, end_time)
    /\ Unstarted

\* TimelineMerger.merge_timeline(events_map, end_time)
MergeTimeline ==
    /\ pc = "start"
    /\ IF MergeRaises(events_map, end_time, now)
       THEN /\ pc' = "failed"
            /\ merge_status' = "error"
            /\ UNCHANGED <<timeline, active_projects>>
       ELSE /\ pc' = "merged"
            /\ merge_status' = "ok"
            /\ timeline' = MergedTimeline(events_map, end_time, now)
            /\ active_projects' = MergedProjects(events_map, end_time, now)
    /\ debug_snapshots' = MergeSnapshots(events_map, end_time, now)
    /\ df_vscode_filled' = VscodeFrame(events_map, end_time, now)
    /\ UNCHANGED <<events_map, end_time, now, df_active, active_ranges, result, result2,
                   rerun, calls, merger_snapshots, downstream>>

\* AFKProcessor.process(timeline, config)
AFKFilter ==
    /\ pc = "merged"
    /\ pc' = "filtered"
    /\ df_active' = IF timeline = <<>> THEN <<>> ELSE Flatten(WithEnd(timeline))
    /\ active_ranges' = IF timeline = <<>> THEN <<>>
                        ELSE ActiveRanges(WithEnd(timeline), Flatten(WithEnd(timeline)))
    /\ result' = AFKProcess(timeline, SystemApps(afk_plugin_config))
    /\ UNCHANGED <<events_map, end_time, now, merge_status, timeline, active_projects,
                   debug_snapshots, df_vscode_filled, result2, rerun, calls,
                   merger_snapshots, downstream>>

\* AFKProcessor.process on its own output, put back beside the same AFK items
AFKRefilter ==
    /\ pc = "filtered"
    /\ pc' = "refiltered"
    /\ result2' = AFKProcess(result \o SelectSeq(timeline, IsFromAfkSource),
                             SystemApps(afk_plugin_config))
    /\ UNCHANGED <<events_map, end_time, now, merge_status, timeline, active_projects,
                   debug_snapshots, df_vscode_filled, df_active, active_ranges, result,
                   rerun, calls, merger_snapshots, downstream>>

\* the clock readings of a later run: the clock does not go back
LaterClocks(clock) == {clock, GridTime(MaxStart + MaxDur)}

\* a second run of the engine, merge_timeline and then AFKProcessor.process,
\* on the same events_map and end_time at a later reading of the clock
Rerun ==
    /\ pc \in {"filtered", "failed"}
    /\ pc' = "rerun"
    /\ \E clock \in LaterClocks(now) :
          rerun' = IF MergeRaises(events_map, end_time, clock)
                   THEN [now |-> clock, status |-> "error", timeline |-> <<>>,
                         result |-> <<>>]
                   ELSE [now |-> clock, status |-> "ok",
                         timeline |-> MergedTimeline(events_map, end_time, clock),
                         result |-> AFKProcess(MergedTimeline(events_map, end_time, clock),
                                               SystemApps(afk_plugin_config))]
    /\ UNCHANGED <<events_map, end_time, now, merge_status, timeline, active_projects,
                   debug_snapshots, df_vscode_filled, df_active, active_ranges, result,
                   result2, calls, merger_snapshots, downstream>>

\* a direct call of analyze_working_hours on a timeline
InitStats ==
    /\ pc = "final"
    /\ events_map = EmptyEventMap
    /\ end_time = NoTime
    /\ now = GridTime(MaxStart + MaxDur)
    /\ merge_status = "none"
    /\ \E k \in 0..MaxStatsRows : timeline \in [1..k -> StatsItems]
    /\ active_projects = {}
    /\ debug_snapshots = <<>>
    /\ df_vscode_filled = <<>>
    /\ df_active = <<>>
    /\ active_ranges = <<>>
    /\ result = <<>>
    /\ result2 = <<>>
    /\ rerun = NoRerun
    /\ calls = <<>>
    /\ merger_snapshots = <<>>
    /\ stats_config \in BreakCategories
    /\ work_stats = NoStats
    /\ ManagerUnstarted
    /\ compressed = <<>>
    /\ pipeline = NoPipeline
    /\ afk_plugin_config = NoAfkConfig

\* TimelineStatsCalculator.analyze_working_hours(timeline, merged_segments, config)
AnalyzeWorkingHours ==
    /\ pc = "final"
    /\ pc' = "analyzed"
    /\ work_stats' = analyze_working_hours(timeline, stats_config, now)
    /\ UNCHANGED <<events_map, end_time, now, merge_status, timeline, active_projects,
                   debug_snapshots, df_vscode_filled, df_active, active_ranges, result,
                   result2, rerun, calls, merger_snapshots, stats_config, manager,
                   compressed, pipeline, afk_plugin_config>>

\* PluginManager.__init__ followed by load_builtin_plugins
InitPlugins ==
    /\ pc = "plugins"
    /\ EngineIdle
    /\ StatsUnstarted
    /\ \/ plugins_json = NoFile
       \/ \E k \in 0..MaxConfigEntries : \E entries \in [1..k -> ConfigEntries] :
             plugins_json = File(entries)
    /\ plugin_config = plugins_json.entries
    /\ ordered_plugins = <<>>
    /\ last_call = [caller |-> "none", loaded |-> plugin_config, saved |-> FALSE]
    /\ compressed = <<>>
    /\ pipeline = NoPipeline
    /\ afk_plugin_config = NoAfkConfig

\* the lists _get_ordered_plugins is called with
PluginsOf(caller) ==
    CASE caller = "run_processors" -> processors
      [] caller = "run_pipeline_with_snapshots" -> processors \o scanners
      [] caller = "run_renderers" -> renderers
      [] caller = "sync_plugins" -> processors \o scanners \o renderers

\* what a call of _get_ordered_plugins does to the manager; save_plugin_config
\* writes the file or raises
OrderPlugins(caller) ==
    LET r == get_ordered_plugins(plugin_config, PluginsOf(caller))
    IN /\ ordered_plugins' = r.ordered
       /\ \E written \in BOOLEAN :
             /\ plugin_config' = IF written THEN r.saved ELSE r.unsaved
             /\ plugins_json' = IF r.saves /\ written THEN File(r.saved) ELSE plugins_json
             /\ last_call' = [caller |-> caller, loaded |-> last_call.loaded,
                              saved |-> r.saves /\ written]

\* a call of _get_ordered_plugins
GetOrderedPlugins(caller) ==
    /\ pc = "plugins"
    /\ OrderPlugins(caller)
    /\ UNCHANGED <<pc, engine, stats, compressed, pipeline, afk_plugin_config>>

\* the methods of PluginManager that call _get_ordered_plugins
PluginCallers ==
    {"run_processors", "run_pipeline_with_snapshots", "run_renderers", "sync_plugins"}

\* a PluginManager with the built-in plugins and a timeline for its pipeline
InitPipeline ==
    /\ pc = "pipeline"
    /\ events_map = EmptyEventMap
    /\ end_time = NoTime
    /\ now = GridTime(MaxStart + MaxDur)
    /\ merge_status = "none"
    /\ timeline \in PipelineTimelines
    /\ active_projects = {}
    /\ debug_snapshots = <<>>
    /\ df_vscode_filled = <<>>
    /\ df_active = <<>>
    /\ active_ranges = <<>>
    /\ result = <<>>
    /\ result2 = <<>>
    /\ rerun = NoRerun
    /\ calls = <<>>
    /\ merger_snapshots = <<>>
    /\ StatsUnstarted
    /\ \/ plugins_json = NoFile
       \/ \E k \in 0..MaxPipelineEntries : \E entries \in [1..k -> ConfigEntries] :
             plugins_json = File(entries)
    /\ plugin_config = plugins_json.entries
    /\ ordered_plugins = <<>>
    /\ last_call = [caller |-> "none", loaded |-> plugin_config, saved |-> FALSE]
    /\ compressed = <<>>
    /\ pipeline = NoPipeline
    /\ afk_plugin_config = NoAfkConfig

\* run_pipeline_with_snapshots up to the loop: the locals, the snapshot of the
\* raw data and the plugin order
RunPipeline ==
    /\ pc = "pipeline"
    /\ pc' = "running"
    /\ OrderPlugins("run_pipeline_with_snapshots")
    /\ \E include_snapshots \in BOOLEAN :
          pipeline' = [all_plugins |-> ordered_plugins',
                       index |-> 1,
                       current_timeline |-> timeline,
                       snapshots |-> IF include_snapshots
                                     THEN <<Snapshot("Raw Data", timeline, "Context Merger")>>
                                     ELSE <<>>,
                       scan_summary |-> <<>>,
                       include_snapshots |-> include_snapshots,
                       handed |-> <<>>]
    /\ UNCHANGED <<engine, stats, compressed, afk_plugin_config>>

\* the state after one turn of the loop over all_plugins
AfterPlugin(plugin, tl, summary, raised) ==
    [pipeline EXCEPT
        !.index = @ + 1,
        !.current_timeline = tl,
        !.scan_summary = summary,
        !.snapshots = IF pipeline.include_snapshots
                      THEN Append(@, Snapshot("After " \o plugin.name, tl, plugin.name))
                      ELSE @,
        !.handed = Append(@, [plugin |-> plugin, timeline |-> pipeline.current_timeline,
                              raised |-> raised])]

\* one turn of the loop on a scanner
ScanStep ==
    /\ pc = "running"
    /\ pipeline.index <= Len(pipeline.all_plugins)
    /\ LET plugin == pipeline.all_plugins[pipeline.index]
       IN /\ IsScanner(plugin)
          /\ \E outcome \in ScanOutcomes :
                LET after == AfterScan(pipeline.current_timeline, pipeline.scan_summary,
                                       plugin, outcome)
                IN pipeline' = AfterPlugin(plugin, after.current_timeline,
                                           after.scan_summary, after.raised)
    /\ UNCHANGED <<pc, engine, stats, manager, compressed, afk_plugin_config>>

\* one turn of the loop on a processor
ProcessStep ==
    /\ pc = "running"
    /\ pipeline.index <= Len(pipeline.all_plugins)
    /\ LET plugin == pipeline.all_plugins[pipeline.index]
       IN /\ ~IsScanner(plugin)
          /\ IsProcessor(plugin)
          /\ \E outcome \in ProcessOutcomes(pipeline.current_timeline) :
                pipeline' = AfterPlugin(plugin,
                                        AfterProcess(pipeline.current_timeline, outcome),
                                        pipeline.scan_summary, outcome.raised)
    /\ UNCHANGED <<pc, engine, stats, manager, compressed, afk_plugin_config>>

\* return current_timeline, snapshots, scan_summary
PipelineReturn ==
    /\ pc = "running"
    /\ pipeline.index > Len(pipeline.all_plugins)
    /\ pc' = "returned"
    /\ timeline' = pipeline.current_timeline
    /\ UNCHANGED <<events_map, end_time, now, merge_status, active_projects,
                   debug_snapshots, df_vscode_filled, df_active, active_ranges, result,
                   result2, rerun, calls, merger_snapshots, downstream>>

\* a direct call of CompressionProcessor.process on a frame
InitCompress ==
    /\ pc = "mapped"
    /\ events_map = EmptyEventMap
    /\ end_time = NoTime
    /\ now = GridTime(MaxStart + MaxDur)
    /\ merge_status = "none"
    /\ \E n \in 0..MaxCompressRows :
          \E ks \in [1..n -> CompressKinds] : \E ds \in [1..n -> CompressDurations] :
             timeline = [i \in 1..n |-> CompressRow(i, ks[i], ds[i])]
    /\ active_projects = {}
    /\ debug_snapshots = <<>>
    /\ df_vscode_filled = <<>>
    /\ df_active = <<>>
    /\ active_ranges = <<>>
    /\ result = <<>>
    /\ result2 = <<>>
    /\ rerun = NoRerun
    /\ calls = <<>>
    /\ merger_snapshots = <<>>
    /\ DownstreamUnstarted

\* CompressionProcessor.process(df, config)
CompressTimeline ==
    /\ pc = "mapped"
    /\ pc' = "compressed"
    /\ compressed' = Compress(timeline, MeetingApps)
    /\ UNCHANGED <<engine, stats, manager, pipeline, afk_plugin_config>>

Next == MergeTimeline \/ AFKFilter \/ AFKRefilter
Spec == Init /\ [][Next]_vars

NextAFK == AFKFilter \/ AFKRefilter
SpecAFK == InitAFK /\ [][NextAFK]_vars

NextRerun == MergeTimeline \/ AFKFilter \/ Rerun
SpecRerun == Init /\ [][NextRerun]_vars

NextCalls ==
    \/ \E c \in Callers : CallReset(c)
    \/ \E c \in Callers : CallSnapshotRaw(c)
    \/ \E c \in Callers : CallFloodFill(c)
    \/ \E c \in Callers : CallReturn(c)
    \/ \E c \in Callers : CallReadSnapshots(c)
SpecCalls == InitCalls /\ [][NextCalls]_vars

NextApps == AFKFilter
SpecApps == InitApps /\ [][NextApps]_vars

NextOverlay == MergeTimeline
SpecOverlay == InitOverlay /\ [][NextOverlay]_vars

NextPlugins == \E caller \in PluginCallers : GetOrderedPlugins(caller)
SpecPlugins == InitPlugins /\ [][NextPlugins]_vars

NextCompress == CompressTimeline
SpecCompress == InitCompress /\ [][NextCompress]_vars

NextStats == AnalyzeWorkingHours
SpecStats == InitStats /\ [][NextStats]_vars

NextConfigured == AFKFilter
SpecConfigured == InitConfigured /\ [][NextConfigured]_vars

NextPipeline == RunPipeline \/ ScanStep \/ ProcessStep \/ PipelineReturn
SpecPipeline == InitPipeline /\ [][NextPipeline]_vars

-----------------------------------------------------------------------------
(* Vocabulary of the properties *)

ItemEnd(r) == r.timestamp + r.duration

\* two items share an instant of time
ItemsOverlap(a, b) ==
    /\ a.timestamp < ItemEnd(a) /\ b.timestamp < ItemEnd(b)
    /\ a.timestamp < ItemEnd(b) /\ b.timestamp < ItemEnd(a)

PairwiseDisjoint(s) ==
    \A i, j \in 1..Len(s) : i # j => ~ItemsOverlap(s[i], s[j])

AllEvents(em) ==
    {em.window[i] : i \in 1..Len(em.window)} \cup {em.vscode[i] : i \in 1..Len(em.vscode)}
    \cup {em.web[i] : i \in 1..Len(em.web)} \cup {em.afk[i] : i \in 1..Len(em.afk)}

\* every input record has end >= start
ValidInput == \A e \in AllEvents(events_map) : e.duration >= 0

WindowSegments == SelectSeq(timeline, LAMBDA r : r.source = "Window")

\* the window records do not overlap each other
WindowRecordsDisjoint == PairwiseDisjoint(events_map.window)

RangeLength(r) == r[2] - r[1]
TotalRangeLength == SumSeq([i \in 1..Len(active_ranges) |-> RangeLength(active_ranges[i])])
TotalDuration(s) == SumSeq([i \in 1..Len(s) |-> s[i].duration])

-----------------------------------------------------------------------------
(* C1 *)

-----------------------------------------------------------------------------
(* C2 *)

Filtered == pc \in {"filtered", "refiltered"}

\* C2: the durations of the rows AFKProcessor.process returns sum to at most
\* the total length of the active ranges it computed.
C2_Original == Filtered => TotalDuration(result) <= TotalRangeLength

\* the same bound when flattening has left no two content rows overlapping
C2_WhenFlat ==
    (Filtered /\ PairwiseDisjoint(df_active)) => TotalDuration(result) <= TotalRangeLength

-----------------------------------------------------------------------------
(* C3 *)

\* C3: AFKProcessor.process applied to its own output, beside the same AFK
\* items, returns exactly that output.
C3_Original == pc = "refiltered" => result2 = result

C3_WhenFlat == (pc = "refiltered" /\ PairwiseDisjoint(df_active)) => result2 = result

-----------------------------------------------------------------------------
(* C4 *)

\* C4: every row AFKProcessor.process returns lies inside one active range:
\* its start, its midpoint and its end are within the same [start, end).
C4_InsideOneRange ==
    Filtered =>
        \A i \in 1..Len(result) :
            \E k \in 1..Len(active_ranges) :
                /\ active_ranges[k][1] <= result[i].timestamp
                /\ active_ranges[k][1] <= Midpoint(result[i].timestamp, ItemEnd(result[i]))
                /\ Midpoint(result[i].timestamp, ItemEnd(result[i])) < active_ranges[k][2]
                /\ ItemEnd(result[i]) <= active_ranges[k][2]

\* a content row reaching over the end of a range and cut there
C4_Witness ==
    /\ pc = "filtered"
    /\ Len(active_ranges) = 2
    /\ \E i \in 1..Len(result) : \E j \in 1..Len(timeline) :
          /\ timeline[j].title = result[i].title
          /\ result[i].timestamp = timeline[j].timestamp
          /\ ItemEnd(result[i]) = active_ranges[1][2]
          /\ ItemEnd(result[i]) < ItemEnd(timeline[j])

-----------------------------------------------------------------------------
(* C5 *)

NotAfkRows == SelectSeq(timeline, IsActiveFromAfkSource)

\* C5: the active ranges built from the not-afk rows are ascending by start
\* and separated: each range ends before the next one starts.
C5_RangesSeparated ==
    (Filtered /\ NotAfkRows # <<>>) =>
        /\ active_ranges # <<>>
        /\ \A k \in 1..(Len(active_ranges) - 1) :
              /\ active_ranges[k][1] < active_ranges[k + 1][1]
              /\ active_ranges[k][2] < active_ranges[k + 1][1]

\* three not-afk rows out of order, two of them touching, give two ranges
C5_Witness ==
    /\ pc = "filtered"
    /\ Len(NotAfkRows) = 3
    /\ NotAfkRows[1].timestamp > NotAfkRows[2].timestamp
    /\ \E i, j \in 1..3 : ItemEnd(NotAfkRows[i]) = NotAfkRows[j].timestamp
                            /\ NotAfkRows[i].duration > 0 /\ NotAfkRows[j].duration > 0
    /\ Len(active_ranges) = 2

-----------------------------------------------------------------------------
(* C6 *)

Merged == pc \in {"merged", "filtered", "refiltered"}

\* C6: every non-AFK segment merge_timeline returns and every row
\* AFKProcessor.process returns lasts at least 0.1 s.
C6_NoSlivers ==
    /\ Merged => \A i \in 1..Len(timeline) :
                    timeline[i].source # "AFK" => timeline[i].duration >= MinDuration
    /\ Filtered => \A i \in 1..Len(result) : result[i].duration >= MinDuration

\* an overlay cut a sliver off a window record: the merger kept less than the
\* record's length, and the filter returned rows
C6_Witness ==
    /\ pc = "filtered"
    /\ Len(events_map.window) = 1
    /\ events_map.window[1].duration >= MinDuration
    /\ WindowSegments # <<>>
    /\ TotalDuration(WindowSegments) < events_map.window[1].duration
    /\ result # <<>>

-----------------------------------------------------------------------------
(* C7 *)

ContentRows == SelectSeq(timeline, IsContent)
NoSystemApp(s) == \A i \in 1..Len(s) : Lower(s[i].app) \notin SYSTEM_APPS

Ticks == 0..GridTime(MaxStart + MaxDur)
CoveredBy(s, t) == \E i \in 1..Len(s) : s[i].timestamp <= t /\ t < ItemEnd(s[i])
InActiveRange(t) ==
    \E k \in 1..Len(active_ranges) : active_ranges[k][1] <= t /\ t < active_ranges[k][2]

\* t lies in a piece (one content row cut by one active range) shorter than 0.1 s
InSliver(t) ==
    \E i \in 1..Len(ContentRows) : \E k \in 1..Len(active_ranges) :
        /\ ContentRows[i].timestamp <= t /\ t < ItemEnd(ContentRows[i])
        /\ active_ranges[k][1] <= t /\ t < active_ranges[k][2]
        /\ Min(ItemEnd(ContentRows[i]), active_ranges[k][2])
             - Max(ContentRows[i].timestamp, active_ranges[k][1]) < MinDuration

\* C7: for content rows that do not overlap and are no system apps, an
\* instant is covered by a returned row iff a content row and an active range
\* cover it, pieces shorter than 0.1 s apart; a returned row carries the app
\* and title of the content row it was cut from.
C7_ClipsToPresence ==
    (Filtered /\ PairwiseDisjoint(ContentRows) /\ NoSystemApp(ContentRows)) =>
        /\ \A t \in Ticks :
              /\ CoveredBy(result, t) => (CoveredBy(ContentRows, t) /\ InActiveRange(t))
              /\ (CoveredBy(ContentRows, t) /\ InActiveRange(t) /\ ~CoveredBy(result, t))
                    => InSliver(t)
        /\ \A i \in 1..Len(result) : \E j \in 1..Len(ContentRows) :
              /\ ContentRows[j].title = result[i].title
              /\ ContentRows[j].app = result[i].app
              /\ ContentRows[j].timestamp <= result[i].timestamp
              /\ ItemEnd(result[i]) <= ItemEnd(ContentRows[j])

\* the scenario of the test, scaled: one content row over the whole span,
\* active, a gap, active again: two rows come back, one per active range
C7_Witness ==
    /\ pc = "filtered"
    /\ Len(ContentRows) = 1 /\ NoSystemApp(ContentRows)
    /\ ContentRows[1].timestamp = 0 /\ ContentRows[1].duration = GridTime(5)
    /\ active_ranges = << <<0, GridTime(2)>>, <<GridTime(3), GridTime(5)>> >>
    /\ Len(result) = 2
    /\ result[1].timestamp = 0 /\ result[1].duration = GridTime(2)
    /\ result[2].timestamp = GridTime(3) /\ result[2].duration = GridTime(2)

-----------------------------------------------------------------------------
(* C8 *)

SortedContent == SortByTimestamp(SelectSeq(WithEnd(timeline), IsContent))

\* row i of the sorted content starts before the end of the row before it
StartsInsidePrevious(i) ==
    i > 1 /\ SortedContent[i].timestamp < SortedContent[i - 1].end

FlattenedAs(title) == {j \in 1..Len(df_active) : df_active[j].title = title}

\* C8: in the sorted content a row that starts before the end of the row
\* just before it has its start moved to that end and its duration set to
\* end - start; a row left with duration <= 0 is dropped; any other row is
\* left unchanged.
C8_Flattening ==
    Filtered =>
        \A i \in 1..Len(SortedContent) :
            LET row == SortedContent[i]
                newStart == IF StartsInsidePrevious(i) THEN SortedContent[i - 1].end
                            ELSE row.timestamp
            IN IF row.end - newStart > 0
               THEN /\ Cardinality(FlattenedAs(row.title)) = 1
                    /\ \A j \in FlattenedAs(row.title) :
                          /\ df_active[j].timestamp = newStart
                          /\ df_active[j].duration = row.end - newStart
                          /\ df_active[j].end = row.end
                          /\ ~StartsInsidePrevious(i) => df_active[j].duration = row.duration
               ELSE FlattenedAs(row.title) = {}

\* the scenario of the test, scaled: A 0-4 stays, B 2-6 becomes 4-6, and a
\* third, empty row starting inside B is dropped
C8_Witness ==
    /\ pc = "filtered"
    /\ Len(SortedContent) = 3
    /\ SortedContent[1].timestamp = 0 /\ SortedContent[1].end = GridTime(2)
    /\ SortedContent[2].timestamp = GridTime(1) /\ SortedContent[2].end = GridTime(3)
    /\ SortedContent[3].timestamp = GridTime(1) /\ SortedContent[3].end = GridTime(1)
    /\ Len(df_active) = 2
    /\ df_active[1].timestamp = 0 /\ df_active[1].duration = GridTime(2)
    /\ df_active[2].timestamp = GridTime(2) /\ df_active[2].duration = GridTime(1)

-----------------------------------------------------------------------------
(* C9 *)

Fallback == Filtered /\ NotAfkRows = <<>>

OverlapsAnother(s, i) == \E j \in 1..Len(s) : j # i /\ ItemsOverlap(s[i], s[j])

\* the row comes back once, with its start and duration
ReturnedUnchanged(row) ==
    /\ Cardinality({j \in 1..Len(result) : result[j].title = row.title}) = 1
    /\ \A j \in 1..Len(result) :
          result[j].title = row.title =>
              /\ result[j].timestamp = row.timestamp
              /\ result[j].duration = row.duration

SpanOf(s) ==
    << <<SetMin({s[i].timestamp : i \in 1..Len(s)}), SetMax({ItemEnd(s[i]) : i \in 1..Len(s)})>> >>

\* C9 as stated: with no not-afk row the one active range is [min start,
\* max end) over the content rows, and every content row that is no system
\* app and overlaps no other comes back with its start and duration.
C9_Original ==
    (Fallback /\ ContentRows # <<>>) =>
        /\ active_ranges = SpanOf(ContentRows)
        /\ \A i \in 1..Len(ContentRows) :
              (Lower(ContentRows[i].app) \notin SYSTEM_APPS /\ ~OverlapsAnother(ContentRows, i))
                  => ReturnedUnchanged(ContentRows[i])

PositiveContent == SelectSeq(ContentRows, HasPositiveDuration)

\* C9, amended: with no not-afk row the one active range is [min start,
\* max end) over the content rows of positive duration (no range when there
\* is none), and every content row of at least 0.1 s that is no system app
\* and overlaps no other comes back with its start and duration.
C9_FallbackKeepsContent ==
    Fallback =>
        /\ active_ranges = IF PositiveContent = <<>> THEN <<>> ELSE SpanOf(PositiveContent)
        /\ \A i \in 1..Len(ContentRows) :
              (/\ Lower(ContentRows[i].app) \notin SYSTEM_APPS
               /\ ContentRows[i].duration >= MinDuration
               /\ ~OverlapsAnother(ContentRows, i))
                  => ReturnedUnchanged(ContentRows[i])

\* only an afk-status row beside two content rows: the second content row
\* ends last and comes back whole
C9_Witness ==
    /\ pc = "filtered"
    /\ NotAfkRows = <<>>
    /\ Len(timeline) = 3 /\ Len(ContentRows) = 2
    /\ NoSystemApp(ContentRows) /\ PairwiseDisjoint(ContentRows)
    /\ ContentRows[1].duration >= MinDuration
    /\ ContentRows[2].duration >= MinDuration
    /\ ItemEnd(ContentRows[2]) > ItemEnd(ContentRows[1])
    /\ ReturnedUnchanged(ContentRows[1])
    /\ ReturnedUnchanged(ContentRows[2])

-----------------------------------------------------------------------------
(* C10 *)

\* C10: an input record with end < start, in whatever source, makes
\* merge_timeline end in an error instead of returning a timeline.
C10_Original == (pc # "start" /\ ~ValidInput) => merge_status = "error"

-----------------------------------------------------------------------------
(* C11 *)

\* the one window record of the merge and its interval [s, e)
Primary == events_map.window[1]
PrimaryStart == Primary.timestamp
PrimaryEnd == Primary.timestamp + Primary.duration

OnePrimary == Len(events_map.window) = 1
EditorPrimary == OnePrimary /\ IsEditorApp(Lower(Primary.app))
BrowserPrimary == OnePrimary /\ IsBrowserApp(Lower(Primary.app))

\* the record's interval and the primary record share an instant (closed on both ends)
OverlapsPrimary(r) ==
    r.timestamp <= r.end /\ r.timestamp <= PrimaryEnd /\ r.end >= PrimaryStart

\* the gap-filled editor records that overlap the primary record
EditorOverlays == {i \in 1..Len(df_vscode_filled) : OverlapsPrimary(df_vscode_filled[i])}

\* the bounds of a record clipped to [s, e); none when nothing of it is left
ClippedBounds(r) ==
    IF Max(PrimaryStart, r.timestamp) < Min(PrimaryEnd, r.end)
    THEN {Max(PrimaryStart, r.timestamp), Min(PrimaryEnd, r.end)}
    ELSE {}

EditorBoundaries ==
    {PrimaryStart, PrimaryEnd} \cup UNION {ClippedBounds(df_vscode_filled[i]) : i \in EditorOverlays}

SegmentBoundaries ==
    {WindowSegments[i].timestamp : i \in 1..Len(WindowSegments)}
    \cup {ItemEnd(WindowSegments[i]) : i \in 1..Len(WindowSegments)}

\* the intervals between neighbouring boundaries
Pieces(B) == {p \in B \X B : p[1] < p[2] /\ ~\E c \in B : p[1] < c /\ c < p[2]}

SegmentSpans == {<<WindowSegments[i].timestamp, ItemEnd(WindowSegments[i])>> :
                    i \in 1..Len(WindowSegments)}

\* the editor records whose interval holds the midpoint of segment g
EditorRecordsAt(g) ==
    {i \in EditorOverlays :
        /\ df_vscode_filled[i].timestamp <= Midpoint(g.timestamp, ItemEnd(g))
        /\ Midpoint(g.timestamp, ItemEnd(g)) <= df_vscode_filled[i].end}

\* the files named by the editor lines of a context list
ContextFiles(g) ==
    {g.context[k][2] : k \in {j \in 1..Len(g.context) : g.context[j][1] = "[VSCode]"}}

\* g carries the files of exactly the editor records its midpoint lies in
TaggedByMidpoint(g) ==
    /\ ContextFiles(g) = {df_vscode_filled[i].file : i \in EditorRecordsAt(g)}
    /\ IF EditorRecordsAt(g) = {} THEN g.file = None
       ELSE g.file \in {df_vscode_filled[i].file : i \in EditorRecordsAt(g)}

EveryEditorRecordHasFile ==
    \A i \in 1..Len(events_map.vscode) : events_map.vscode[i].file # None

EditorCase == pc = "merged" /\ EditorPrimary /\ EveryEditorRecordHasFile

-----------------------------------------------------------------------------
(* C12 *)

\* the browser records that overlap the primary record
BrowserOverlays ==
    {i \in 1..Len(events_map.web) :
        OverlapsPrimary([timestamp |-> events_map.web[i].timestamp,
                         end |-> ItemEnd(events_map.web[i])])}

HoldsMidpoint(start, end, g) ==
    start <= Midpoint(g.timestamp, ItemEnd(g)) /\ Midpoint(g.timestamp, ItemEnd(g)) <= end

\* the attributes the editor record carries are on segment g
EditorContributes(r, g) ==
    /\ r.file # None =>
          /\ \E k \in 1..Len(g.context) : g.context[k] = <<"[VSCode]", r.file, r.language>>
          /\ g.file # None
    /\ r.project # None =>
          /\ \E k \in 1..Len(g.context) : g.context[k] = <<"Project:", r.project>>
          /\ g.project # None

\* the attributes the browser record carries are on segment g
BrowserContributes(w, g) ==
    w.url # None =>
        /\ \E k \in 1..Len(g.context) : g.context[k] = <<"URL:", clean_url(w.url), w.title>>
        /\ g.url # None

EditorRecordsContribute ==
    \A j \in 1..Len(WindowSegments) : \A i \in EditorOverlays :
        HoldsMidpoint(df_vscode_filled[i].timestamp, df_vscode_filled[i].end, WindowSegments[j])
            => EditorContributes(df_vscode_filled[i], WindowSegments[j])

BrowserRecordsContribute ==
    \A j \in 1..Len(WindowSegments) : \A i \in BrowserOverlays :
        HoldsMidpoint(events_map.web[i].timestamp, ItemEnd(events_map.web[i]), WindowSegments[j])
            => BrowserContributes(events_map.web[i], WindowSegments[j])

\* C12 as stated: whatever the app of the window record, every editor record
\* and every browser record that overlaps it puts its attributes on the
\* segments whose midpoint its interval holds.
C12_Original ==
    (pc = "merged" /\ OnePrimary) => (EditorRecordsContribute /\ BrowserRecordsContribute)

\* C12, amended: the editor records do so under a window record of an editor
\* app, the browser records under a window record of a browser app.
C12_QueriedByApp ==
    (pc = "merged" /\ OnePrimary) =>
        /\ EditorPrimary => EditorRecordsContribute
        /\ BrowserPrimary => BrowserRecordsContribute

\* a browser window over a browser record and an editor record that both
\* hold the midpoint of a segment: the segment has the url and no file
C12_Witness ==
    /\ pc = "merged" /\ BrowserPrimary
    /\ \E j \in 1..Len(WindowSegments) :
          /\ \E i \in BrowserOverlays :
                /\ events_map.web[i].url # None
                /\ HoldsMidpoint(events_map.web[i].timestamp, ItemEnd(events_map.web[i]),
                                 WindowSegments[j])
          /\ \E i \in EditorOverlays :
                /\ df_vscode_filled[i].file # None
                /\ HoldsMidpoint(df_vscode_filled[i].timestamp, df_vscode_filled[i].end,
                                 WindowSegments[j])
          /\ WindowSegments[j].url = "http://a"
          /\ WindowSegments[j].file = None

-----------------------------------------------------------------------------
(* C13 *)

GapFilled == pc # "start" /\ events_map.vscode # <<>>

\* what tells one editor record from another: its start and its attributes
Identity(r) == <<r.timestamp, r.file, r.language, r.project>>

\* as many records of each identity after gap filling as before
SameEditorRecords ==
    /\ Len(df_vscode_filled) = Len(events_map.vscode)
    /\ \A i \in 1..Len(events_map.vscode) :
          Cardinality({j \in 1..Len(df_vscode_filled) :
                          Identity(df_vscode_filled[j]) = Identity(events_map.vscode[i])})
          = Cardinality({j \in 1..Len(events_map.vscode) :
                          Identity(events_map.vscode[j]) = Identity(events_map.vscode[i])})

\* the last gap-filled record ends where some input record like it ended
LastEndUnchanged ==
    LET last == df_vscode_filled[Len(df_vscode_filled)]
    IN \E i \in 1..Len(events_map.vscode) :
          /\ Identity(events_map.vscode[i]) = Identity(last)
          /\ last.end = ItemEnd(events_map.vscode[i])

\* C13: the gap-filled editor records are the input records sorted by start;
\* each one ends where the next one starts; the last one ends at
\* min(end_time, now) when a session end is given and where it ended before
\* when none is; every duration is end - start.
C13_GapFilled ==
    GapFilled =>
        LET n == Len(df_vscode_filled)
        IN /\ SameEditorRecords
           /\ \A i \in 1..(n - 1) :
                 /\ df_vscode_filled[i].timestamp <= df_vscode_filled[i + 1].timestamp
                 /\ df_vscode_filled[i].end = df_vscode_filled[i + 1].timestamp
           /\ IF end_time # NoTime THEN df_vscode_filled[n].end = Min(end_time, now)
              ELSE LastEndUnchanged
           /\ \A i \in 1..n :
                 df_vscode_filled[i].duration
                     = df_vscode_filled[i].end - df_vscode_filled[i].timestamp

\* the scenario of the test, scaled, with a session end ahead of the clock:
\* two editor records with a gap between them, given out of order; the first
\* now lasts until the second starts, the second until now
C13_Witness ==
    /\ GapFilled
    /\ Len(events_map.vscode) = 2
    /\ events_map.vscode[1].timestamp = GridTime(2) /\ events_map.vscode[1].duration = GridTime(1)
    /\ events_map.vscode[2].timestamp = 0 /\ events_map.vscode[2].duration = GridTime(1)
    /\ end_time > now
    /\ df_vscode_filled[1].timestamp = 0 /\ df_vscode_filled[1].duration = GridTime(2)
    /\ df_vscode_filled[2].timestamp = GridTime(2) /\ df_vscode_filled[2].end = now

-----------------------------------------------------------------------------
(* C14 *)

IdleSegments == SelectSeq(timeline, IsFromAfkSource)

\* start, duration and status of an idle record
IdleFacts(r) == <<r.timestamp, r.duration, r.status>>

\* C14: the AFK-tagged items of the merge_timeline output are the idle
\* records, each once, with its start, duration and status, whether or not
\* there are window records.
C14_IdlePassThrough ==
    pc = "merged" =>
        /\ Len(IdleSegments) = Len(events_map.afk)
        /\ \A i \in 1..Len(events_map.afk) :
              Cardinality({j \in 1..Len(IdleSegments) :
                              IdleFacts(IdleSegments[j]) = IdleFacts(events_map.afk[i])})
              = Cardinality({j \in 1..Len(events_map.afk) :
                              IdleFacts(events_map.afk[j]) = IdleFacts(events_map.afk[i])})

\* an idle record that starts inside a window record and outlasts it comes
\* out whole, beside the one segment of the window record
C14_Witness ==
    /\ pc = "merged"
    /\ Len(events_map.window) = 1 /\ Len(events_map.afk) = 1
    /\ events_map.window[1].timestamp < events_map.afk[1].timestamp
    /\ events_map.afk[1].timestamp < ItemEnd(events_map.window[1])
    /\ ItemEnd(events_map.window[1]) < ItemEnd(events_map.afk[1])
    /\ Len(WindowSegments) = 1
    /\ Len(IdleSegments) = 1
    /\ IdleFacts(IdleSegments[1]) = IdleFacts(events_map.afk[1])

-----------------------------------------------------------------------------
(* C15 *)

\* the content rows of the timeline that are system apps in either spelling
SystemRows == SelectSeq(ContentRows, LAMBDA r : r.app \in {"loginwindow", "LoginWindow"})

\* C15: no row AFKProcessor.process returns has an app whose lower-cased
\* name is in the suppression set; a content row of loginwindow or
\* LoginWindow leaves nothing of itself in the output.
C15_NoSystemApps ==
    Filtered =>
        /\ \A i \in 1..Len(result) : Lower(result[i].app) \notin SYSTEM_APPS
        /\ \A i \in 1..Len(result) : \A j \in 1..Len(SystemRows) :
              /\ result[i].app # SystemRows[j].app
              /\ result[i].title # SystemRows[j].title

\* no AFK rows; a LoginWindow row and a Code row, both long enough and apart:
\* only the Code row comes back
C15_Witness ==
    /\ pc = "filtered"
    /\ NotAfkRows = <<>>
    /\ Len(ContentRows) = 2 /\ PairwiseDisjoint(ContentRows)
    /\ ContentRows[1].app = "LoginWindow" /\ ContentRows[1].duration >= MinDuration
    /\ ContentRows[2].app = "Code" /\ ContentRows[2].duration >= MinDuration
    /\ Len(result) = 1
    /\ result[1].title = ContentRows[2].title

-----------------------------------------------------------------------------
(* C16 *)

AscendingByStart(s) == \A i \in 1..(Len(s) - 1) : s[i].timestamp <= s[i + 1].timestamp

\* C16: the list merge_timeline returns and the list AFKProcessor.process
\* returns are each ascending by start.
C16_SortedByStart ==
    /\ Merged => AscendingByStart(timeline)
    /\ Filtered => AscendingByStart(result)

\* an idle record that starts before the window record: it is collected
\* after the window segment and returned before it; the filter returns the
\* window segment
C16_Witness ==
    /\ pc = "filtered"
    /\ Len(timeline) = 2
    /\ timeline[1].source = "AFK" /\ timeline[2].source = "Window"
    /\ timeline[1].timestamp < timeline[2].timestamp
    /\ Len(result) = 1

-----------------------------------------------------------------------------
(* C17 *)

NoDuplicates(s) == \A i, j \in 1..Len(s) : i # j => s[i] # s[j]

EveryBrowserRecordHasUrl ==
    \A i \in 1..Len(events_map.web) : events_map.web[i].url # None

\* C17: no context line occurs twice in the context list of a segment of the
\* merge_timeline output (stated here for overlay records that all carry
\* their attributes: every editor record a file, every browser record a url).
C17_Original ==
    (pc = "merged" /\ EveryEditorRecordHasFile /\ EveryBrowserRecordHasUrl)
        => \A i \in 1..Len(timeline) : NoDuplicates(timeline[i].context)

-----------------------------------------------------------------------------
(* C18 *)

\* the records of the queried sources whose interval holds the midpoint of g
ActiveEditorRecords(g) == IF EditorPrimary THEN EditorRecordsAt(g) ELSE {}
ActiveBrowserRecords(g) ==
    IF BrowserPrimary
    THEN {i \in BrowserOverlays :
             HoldsMidpoint(events_map.web[i].timestamp, ItemEnd(events_map.web[i]), g)}
    ELSE {}

\* every record active for g lacks its optional attributes
OnlyBareRecords(g) ==
    /\ \A i \in ActiveEditorRecords(g) :
          /\ df_vscode_filled[i].file = None
          /\ df_vscode_filled[i].language = None
          /\ df_vscode_filled[i].project = None
    /\ \A i \in ActiveBrowserRecords(g) : events_map.web[i].url = None

Untouched(g) ==
    /\ g.context = <<>>
    /\ g.file = None /\ g.language = None /\ g.project = None /\ g.url = None

\* C18: overlay records that lack optional attributes never make
\* merge_timeline fail, and a segment whose active overlay records all lack
\* them has an empty context and no file, language, project or url.
C18_Original ==
    /\ (pc # "start" /\ ValidInput) => merge_status = "ok"
    /\ (pc = "merged" /\ OnePrimary) =>
          \A i \in 1..Len(WindowSegments) :
              OnlyBareRecords(WindowSegments[i]) => Untouched(WindowSegments[i])

\* the first half alone
C18_NeverAnError == (pc # "start" /\ ValidInput) => merge_status = "ok"

-----------------------------------------------------------------------------
(* C19 *)

\* the second run ended as the first one did, with the same lists
SameOutputs ==
    /\ rerun.status = merge_status
    /\ rerun.timeline = timeline
    /\ rerun.result = result

\* C19 as stated: a second run of the engine on the same events, session
\* end and configuration gives the same segments in the same order.
C19_Original == pc = "rerun" => SameOutputs

\* the gap filler has a last editor record to extend to a session end that
\* is ahead of the clock of one of the runs
ClampedToClock ==
    /\ events_map.vscode # <<>>
    /\ end_time # NoTime
    /\ (end_time > now \/ end_time > rerun.now)

\* C19, amended: the two runs give the same segments in the same order
\* unless there are editor events and the session end is ahead of the clock
\* at one of the runs.
C19_SameUnlessClamped == (pc = "rerun" /\ ~ClampedToClock) => SameOutputs

\* a second run at a later clock, a session end behind both clocks, an
\* editor record extended to it: both runs return the same non-empty lists
C19_Witness ==
    /\ pc = "rerun"
    /\ events_map.vscode # <<>> /\ end_time # NoTime
    /\ end_time <= now /\ now < rerun.now
    /\ df_vscode_filled[Len(df_vscode_filled)].end = end_time
    /\ result # <<>>
    /\ SameOutputs

-----------------------------------------------------------------------------
(* C20 *)

\* the snapshots a call records when it runs alone: the raw data, then the
\* gap-filled data when there are editor records
SnapshotNames(c) ==
    IF calls[c].events_map.vscode = <<>> THEN <<"Raw Data Sources">>
    ELSE <<"Raw Data Sources", "Raw Data Sources (Filled)">>

\* the starts of the records of the call, in ascending order
InputStarts(c) ==
    SortedPoints({calls[c].events_map.window[i].timestamp
                     : i \in 1..Len(calls[c].events_map.window)}
                 \cup {calls[c].events_map.vscode[i].timestamp
                     : i \in 1..Len(calls[c].events_map.vscode)})

\* the snapshots the call read are its own: one per name, in order, each
\* listing this call's records
OwnSnapshots(c) ==
    /\ Len(calls[c].snapshots) = Len(SnapshotNames(c))
    /\ \A k \in 1..Len(calls[c].snapshots) :
          /\ calls[c].snapshots[k].name = SnapshotNames(c)[k]
          /\ Len(calls[c].snapshots[k].timeline)
                = Len(calls[c].events_map.window) + Len(calls[c].events_map.vscode)
          /\ \A i \in 1..Len(calls[c].snapshots[k].timeline) :
                \E e \in AllEvents(calls[c].events_map) :
                    e.timestamp = calls[c].snapshots[k].timeline[i].timestamp
    /\ calls[c].snapshots = MergeSnapshots(calls[c].events_map, calls[c].end_time, now)

\* what the call returned is what it returns when it runs alone
OwnReturn(c) ==
    /\ calls[c].timeline = MergedTimeline(calls[c].events_map, calls[c].end_time, now)
    /\ calls[c].projects = MergedProjects(calls[c].events_map, calls[c].end_time, now)

CallDone(c) == pc = "calls" /\ calls[c].pc = "done"

\* C20 as stated: under any interleaving of two merge_timeline calls each
\* call's timeline, project set and recorded debug snapshots are those of
\* running that call alone.
C20_Original ==
    \A c \in Callers : CallDone(c) => (OwnReturn(c) /\ OwnSnapshots(c))

SeparateMergers == calls[1].merger # calls[2].merger

\* C20, amended: each call's timeline and project set are those of running
\* it alone, and so are its recorded debug snapshots when the two calls run
\* on separate TimelineMerger instances.
C20_SeparateInstances ==
    \A c \in Callers :
        CallDone(c) => /\ OwnReturn(c)
                       /\ SeparateMergers => OwnSnapshots(c)

\* two calls on separate instances with different inputs, both with editor
\* records, both finished: each has read its own two snapshots
C20_Witness ==
    /\ pc = "calls" /\ SeparateMergers
    /\ calls[1].pc = "done" /\ calls[2].pc = "done"
    /\ calls[1].events_map # calls[2].events_map
    /\ calls[1].events_map.vscode # <<>> /\ calls[2].events_map.vscode # <<>>
    /\ Len(calls[1].snapshots) = 2 /\ Len(calls[2].snapshots) = 2
    /\ calls[1].snapshots # calls[2].snapshots
    /\ OwnSnapshots(1) /\ OwnSnapshots(2)

(* C21 *)

StatsDone == pc = "analyzed"
NoBreakCategories == stats_config = {}

\* the items whose source is not AFK
NotFromAfkSource(tl) == SelectSeq(tl, IsContent)

\* the instants some item of s covers, counted tick by tick
UnionLength(s) ==
    Cardinality({t \in 0..GridTime(MaxStatsStart + MaxStatsDur + 1) : CoveredBy(s, t)})

SpanLength(tl) == SpanOf(tl)[1][2] - SpanOf(tl)[1][1]

\* C21 as stated: with no break categories configured, working_seconds is the
\* length of the union of the intervals of the items whose source is not AFK,
\* and afk_seconds is the span of all items minus that length.
C21_Original ==
    (StatsDone /\ NoBreakCategories /\ timeline # <<>>)
        => /\ work_stats.working_seconds = UnionLength(NotFromAfkSource(timeline))
           /\ work_stats.afk_seconds =
                  SpanLength(timeline) - UnionLength(NotFromAfkSource(timeline))

\* C21: with no break categories configured, working_seconds is the length of
\* the union of the intervals of the items whose source is not AFK and whose
\* app is not "afk", overlaps counted once, and afk_seconds is the span of all
\* items (latest end - earliest start) minus that length.
C21_UnionOfActive ==
    (StatsDone /\ NoBreakCategories /\ timeline # <<>>)
        => /\ work_stats.working_seconds = UnionLength(SelectSeq(timeline, IsActiveItem))
           /\ work_stats.afk_seconds =
                  SpanLength(timeline) - UnionLength(SelectSeq(timeline, IsActiveItem))

\* three active items, the second inside the first and the third reaching
\* past both: the overlapping time is counted once
C21_Witness ==
    /\ StatsDone /\ NoBreakCategories
    /\ \E i, j, k \in 1..Len(timeline) :
          /\ IsActiveItem(timeline[i]) /\ IsActiveItem(timeline[j]) /\ IsActiveItem(timeline[k])
          /\ timeline[i].timestamp < timeline[j].timestamp
          /\ ItemEnd(timeline[j]) < ItemEnd(timeline[i])
          /\ timeline[j].timestamp < timeline[k].timestamp
          /\ timeline[k].timestamp < ItemEnd(timeline[i])
          /\ ItemEnd(timeline[i]) < ItemEnd(timeline[k])
    /\ work_stats.working_seconds < TotalDuration(timeline)
    /\ work_stats.working_seconds > 0

(* C22 *)

Ids(l) == [i \in 1..Len(l) |-> l[i].plugin_id]
IndexIn(l, id) == SetMin({i \in 1..Len(l) : l[i].plugin_id = id})
Has(l, id) == \E i \in 1..Len(l) : l[i].plugin_id = id

\* the order the pipeline is meant to run in
ExpectedOrder ==
    <<afk_pid, git_pid, extractor_pid, rule_pid, mapping_pid, compression_pid>>

KeepsExpectedOrder(l) ==
    \A a, b \in 1..Len(ExpectedOrder) :
        (a < b /\ Has(l, ExpectedOrder[a]) /\ Has(l, ExpectedOrder[b]))
            => IndexIn(l, ExpectedOrder[a]) < IndexIn(l, ExpectedOrder[b])

CompressionLastProcessor(l) ==
    \A i \in 1..Len(l) :
        (l[i].plugin_id = compression_pid)
            => ~\E j \in (i + 1)..Len(l) : Has(processors, l[j].plugin_id)

NoSavedConfiguration == last_call.loaded = <<>>

\* C22 as stated: with the built-in plugins registered and no saved plugin
\* configuration, the list _get_ordered_plugins returns for the processors and
\* for the processors-plus-scanners list keeps the relative order AFKProcessor,
\* GitScanner, ProjectExtractionProcessor, RuleMatchingProcessor,
\* ProjectMappingProcessor, CompressionProcessor for every pair present, with
\* CompressionProcessor last among the processors.
C22_Original ==
    (NoSavedConfiguration
        /\ last_call.caller \in {"run_processors", "run_pipeline_with_snapshots"})
        => /\ KeepsExpectedOrder(ordered_plugins)
           /\ CompressionLastProcessor(ordered_plugins)

(* C23 *)

\* C23 as stated: the segments AFKFilter returns are pairwise non-overlapping
\* in time, for every input timeline.
C23_Original == pc = "filtered" => PairwiseDisjoint(result)

(* C24 *)

\* the overlays of window row k, and the browser records among them that the
\* title heuristic chose: no browser record overlaps the row
WindowRow(k) == WindowFrame(events_map)[k]
OverlaysOf(k) == RowOverlays(events_map, end_time, now, k)
ChosenByFallback(k) ==
    IF IsBrowserApp(Lower(WindowRow(k).app))
       /\ Overlapping(WebFrame(events_map), WindowRow(k).timestamp, WindowRow(k).end) = <<>>
    THEN SelectSeq(OverlaysOf(k), LAMBDA ov : ov.type = "web")
    ELSE <<>>

\* the overlays of window row k with the heuristic left out
OverlaysWithoutFallback(k) ==
    IF ChosenByFallback(k) = <<>> THEN OverlaysOf(k)
    ELSE SelectSeq(OverlaysOf(k), LAMBDA ov : ov.type # "web")

RECURSIVE MainLoopWithoutFallback(_)
MainLoopWithoutFallback(k) ==
    IF k > Len(WindowFrame(events_map)) THEN <<>>
    ELSE create_segments(WindowRow(k).timestamp, WindowRow(k).end, BaseItem(WindowRow(k)),
                         OverlaysWithoutFallback(k))
         \o MainLoopWithoutFallback(k + 1)

\* the sub-segments of window row k, as pairs of neighbouring split points
SubSegments(k) ==
    Pieces(SegmentPoints(WindowRow(k).timestamp, WindowRow(k).end, OverlaysOf(k)))

\* C24: a browser record chosen by the title fallback adds no split point and
\* holds no sub-segment midpoint, and merge_timeline returns the segments and
\* the projects it would return with the fallback step removed.
C24_FallbackInert ==
    (pc = "merged")
        => /\ \A k \in 1..Len(WindowFrame(events_map)) :
                 \A n \in 1..Len(ChosenByFallback(k)) :
                    LET ov == ChosenByFallback(k)[n]
                    IN /\ SegmentPoints(WindowRow(k).timestamp, WindowRow(k).end, <<ov>>)
                             = {WindowRow(k).timestamp, WindowRow(k).end}
                       /\ \A g \in SubSegments(k) :
                             ~(ov.start <= Midpoint(g[1], g[2])
                               /\ Midpoint(g[1], g[2]) <= ov.end)
           /\ timeline = SortByTimestamp(MainLoopWithoutFallback(1)
                                         \o df_to_items(AfkFrame(events_map), "AFK", FALSE))

\* a browser window record of 0.1 s or more, no browser record overlapping it,
\* and one with a title found in the window title chosen by the fallback
C24_Witness ==
    /\ pc = "merged"
    /\ \E k \in 1..Len(WindowFrame(events_map)) :
          /\ WindowRow(k).duration >= MinDuration
          /\ ChosenByFallback(k) # <<>>
          /\ IsTruthy(ChosenByFallback(k)[1].url)
          /\ \E i \in 1..Len(timeline) :
                /\ timeline[i].timestamp = WindowRow(k).timestamp
                /\ timeline[i].duration = WindowRow(k).duration
                /\ timeline[i].url = None

(* C25 *)

RECURSIVE TotalLength(_)
\* the lengths of a set of intervals, added up
TotalLength(G) ==
    IF G = {} THEN 0
    ELSE LET g == CHOOSE x \in G : TRUE IN (g[2] - g[1]) + TotalLength(G \ {g})

\* the pieces of the primary record's partition that are shorter than 0.1 s
Discarded == {g \in SubSegments(1) : g[2] - g[1] < MinDuration}

\* C25: the sub-segments emitted for one primary record [s, e) are pairwise
\* disjoint, all lie within [s, e), and their durations sum to e - s minus the
\* total length of the discarded pieces shorter than 0.1 s.
C25_ConservesPrimaryTime ==
    (pc = "merged" /\ OnePrimary)
        => /\ PairwiseDisjoint(WindowSegments)
           /\ \A i \in 1..Len(WindowSegments) :
                 /\ PrimaryStart <= WindowSegments[i].timestamp
                 /\ ItemEnd(WindowSegments[i]) <= PrimaryEnd
           /\ TotalDuration(WindowSegments)
                 = (PrimaryEnd - PrimaryStart) - TotalLength(Discarded)

\* a primary record cut in three by an overlay that begins inside it and ends
\* after it and by another: two pieces are emitted and a sliver is discarded
C25_Witness ==
    /\ pc = "merged" /\ OnePrimary
    /\ Len(WindowSegments) >= 2
    /\ Discarded # {}
    /\ \E n \in 1..Len(OverlaysOf(1)) :
          /\ PrimaryStart < OverlaysOf(1)[n].start
          /\ OverlaysOf(1)[n].start < PrimaryEnd
          /\ PrimaryEnd < OverlaysOf(1)[n].end

(* C26 *)

Compressed == pc = "compressed"
IsGit(row) == row.app = "Git"

\* the output rows that begin where input row i begins
RowsOf(i) == SelectSeq(compressed, LAMBDA g : g.timestamp = timeline[i].timestamp)

\* input row i is in the output as a row of its own
KeptAsOwnRow(i) ==
    /\ Len(RowsOf(i)) = 1
    /\ RowsOf(i)[1].app = timeline[i].app
    /\ RowsOf(i)[1].duration = timeline[i].duration
    /\ RowsOf(i)[1].title = timeline[i].title

SameGroupKey(a, b) == a.project = b.project /\ a.category = b.category

\* rows i..j are non-Git rows of one project and category, and no longer run is
Run(i, j) ==
    /\ i <= j
    /\ \A k \in i..j : ~IsGit(timeline[k]) /\ SameGroupKey(timeline[k], timeline[i])
    /\ i = 1 \/ IsGit(timeline[i - 1]) \/ ~SameGroupKey(timeline[i - 1], timeline[i])
    /\ j = Len(timeline) \/ IsGit(timeline[j + 1])
          \/ ~SameGroupKey(timeline[j + 1], timeline[i])

MergedIntoOne(i, j) ==
    /\ Len(RowsOf(i)) = 1
    /\ RowsOf(i)[1].duration = SumSeq([k \in 1..(j - i + 1) |-> timeline[i + k - 1].duration])
    /\ \A k \in (i + 1)..j : RowsOf(k) = <<>>

\* C26 as stated: every input row whose app is Git appears in the output as
\* its own row with its own duration and title, whatever rows precede or
\* follow it, and consecutive non-Git rows with equal project and category are
\* merged into one row whose duration is their sum.
C26_Original ==
    Compressed
        => /\ \A i \in 1..Len(timeline) : IsGit(timeline[i]) => KeptAsOwnRow(i)
           /\ \A i, j \in 1..Len(timeline) : Run(i, j) => MergedIntoOne(i, j)

(* C27 *)

PipelineRan == pc \in {"running", "returned"}
Handed == pipeline.handed

\* the timeline the plugin behind the i-th one is handed, or will be
HandedOn(i) ==
    IF i < Len(Handed) THEN Handed[i + 1].timeline ELSE pipeline.current_timeline

ProcessorRaisedAt(i) == IsProcessor(Handed[i].plugin) /\ Handed[i].raised
ScannerRaisedAt(i) == IsScanner(Handed[i].plugin) /\ Handed[i].raised

HasFailureLine(plugin) ==
    \E k \in 1..Len(pipeline.scan_summary) : \E e \in {"git not found", "'timestamp'"} :
        pipeline.scan_summary[k] = FailureLine(plugin, e)

\* C27: in run_pipeline_with_snapshots a failing plugin does not stop the
\* pipeline. After a processor that raised, the next plugin is handed the
\* timeline the failing processor was handed; after a scanner that raised, the
\* scan summary carries the scanner's failure line; and when the pipeline
\* returns, every plugin of the order has run, in that order.
C27_FailureDoesNotStop ==
    PipelineRan
        => /\ \A i \in 1..Len(Handed) : ProcessorRaisedAt(i) => HandedOn(i) = Handed[i].timeline
           /\ \A i \in 1..Len(Handed) : ScannerRaisedAt(i) => HasFailureLine(Handed[i].plugin)
           /\ [i \in 1..Len(Handed) |-> Handed[i].plugin]
                 = SubSeq(pipeline.all_plugins, 1, pipeline.index - 1)
           /\ pc = "returned" => Len(Handed) = Len(pipeline.all_plugins)

\* the pipeline has returned after a processor raised on a timeline with rows
\* and a scanner raised, each with a plugin behind it that ran
C27_Witness ==
    /\ pc = "returned"
    /\ \E i \in 1..(Len(Handed) - 1) : ProcessorRaisedAt(i) /\ Handed[i].timeline # <<>>
    /\ \E i \in 1..(Len(Handed) - 1) : ScannerRaisedAt(i)

(* C28 *)

\* the ids of the enabled entries of a configuration that name one of the
\* plugins, in the order of the entries
EnabledOrder(config, plugins) ==
    Ids(SelectSeq(config, LAMBDA e : e.enabled /\ FindById(plugins, e.plugin_id) # <<>>))

\* C28 as stated: the plugin order _get_ordered_plugins returns equals the order
\* of the enabled entries of the plugin configuration the manager holds and has
\* saved when the call returns, also on the call that finds a new plugin and
\* inserts it into an existing configuration.
C28_Original ==
    (last_call.caller # "none" /\ last_call.saved)
        => Ids(ordered_plugins)
              = EnabledOrder(plugin_config, PluginsOf(last_call.caller))

(* C29 *)

EditorInputUpright ==
    \A i \in 1..Len(events_map.vscode) : events_map.vscode[i].duration >= 0

\* C29 as stated: for editor records that each have end >= start on input,
\* every record has end >= start (duration >= 0) after gap filling, for any
\* supplied session end and any value of now.
C29_Original ==
    (GapFilled /\ EditorInputUpright)
        => \A i \in 1..Len(df_vscode_filled) :
              /\ df_vscode_filled[i].end >= df_vscode_filled[i].timestamp
              /\ df_vscode_filled[i].duration >= 0

(* C30 *)

\* the rows AFKFilter returns when nothing is suppressed
Unsuppressed == AFKProcess(timeline, {})

ListGiven ==
    /\ "afk_system_apps" \in afk_plugin_config.keys
    /\ afk_plugin_config.afk_system_apps # <<>>

\* the set the claim names
NamedSuppressionSet ==
    IF ListGiven
    THEN {Lower(afk_plugin_config.afk_system_apps[i]) :
             i \in 1..Len(afk_plugin_config.afk_system_apps)}
    ELSE {"loginwindow", "lockscreen", "screensaverengine"}

\* C30: AFKFilter suppresses the rows whose lower-cased app is in the built-in
\* set {loginwindow, lockscreen, screensaverengine} when the plugin
\* configuration gives no or an empty afk_system_apps list, and the rows whose
\* lower-cased app is one of the configured names, lower-cased, when the list
\* is non-empty: the configured list replaces the built-in names.
C30_SuppressionSet ==
    pc = "filtered"
        => result = SelectSeq(Unsuppressed,
                              LAMBDA r : Lower(r.app) \notin NamedSuppressionSet)

\* the list names the editor only, in capitals: the editor's row is dropped
\* and the login window's row, no longer suppressed, is returned
C30_Witness ==
    /\ pc = "filtered"
    /\ afk_plugin_config.afk_system_apps = <<"Code">>
    /\ \E i \in 1..Len(Unsuppressed) : Unsuppressed[i].app = "Code"
    /\ \E i \in 1..Len(result) : Lower(result[i].app) = "loginwindow"


=============================================================================
